---------------------------- MODULE Spec2Model ----------------------------
(***************************************************************************)
(* A model of the interactive 3D scene editor: the drag controller of a   *)
(* building model, the height-adjust control panel, the rotation          *)
(* animator, the composite-model alignment with the visibility of the     *)
(* parts, the view cube and the model cache.                               *)
(*                                                                         *)
(* Lengths are fixed point: one world unit is UNIT quanta, so that the    *)
(* program's constants (0.008, 0.05, 0.025, 0.15 * 0.016, 3.333) are all  *)
(* whole numbers.  Screen coordinates are whole pixels, times are whole   *)
(* milliseconds.                                                           *)
(* The main camera has quanta of its own: CAM_UNIT per world unit for its  *)
(* position, DIR_UNIT for unit vectors and radians, VEL_UNIT per pixel for *)
(* the velocity of the view cube's inertia.                                *)
(*                                                                         *)
(* The repository holds two versions of the drag controller and of the    *)
(* rotation animator (components/BuildingModel.tsx and unnamed/part_002)  *)
(* and two of the single-click height step; `impl` says which one a       *)
(* behaviour runs and never changes.                                       *)
(***************************************************************************)
EXTENDS Integers, Sequences, FiniteSets, TLC

VARIABLES
    impl,               \* "current" (BuildingModel.tsx) or "legacy" (part_002)
    app,                \* the parent's record of the model: what onUpdate/onSelect write
    data,               \* the props of the last render of BuildingModelContent
    positionFresh,      \* app.position is a new array since the last render
    positionRef,        \* BuildingModelContent positionRef.current
    lastPointerPosRef,  \* <<>> (null) or <<x, y>>
    isDraggingRef,
    memo,               \* use-gesture memo of part_002: <<>> (undefined) or <<initialPos>>
    rafQueue,           \* positions of the pending requestAnimationFrame(onUpdate) callbacks
    gestureActive,      \* the gesture library is between the first and the last event of a drag
    parentDragging,     \* the parent's flag between onDragStart?.() and onDragEnd?.()
    emitted,            \* the positions the last step passed to onUpdate, in order
    lastEvent,          \* the touch count and pointer of the last drag event
    eventStopped,       \* the handlers of the last step called event.stopPropagation()
    parentNotified,     \* what the last step told the parent: "start" (onDragStart?.()),
                        \* "end" (onDragEnd?.()) or "none"
    pointerOfGesture    \* lastPointerPosRef was stored by an event of the gesture in
                        \* progress or, between gestures, of the last one

\* The control panel of one model (ControlPanel)
VARIABLES
    controlPositionRef, \* ControlPanel positionRef.current
    isPressingRef,
    directionRef,       \* "up", "down" or "none" (null)
    lastTimeRef,        \* timestamp of the previous long-press frame, 0 before the first
    longPressTimerRef,  \* the ref holds a timeout id
    animationFrameRef,  \* the ref holds an animation frame id
    timer,              \* the pending setTimeout: <<>> or <<direction, due time>>
    heightRaf,          \* a requestAnimationFrame(animateHeight) callback is pending
    now,                \* the clock, in milliseconds
    pressed,            \* the height button the pointer holds down, or "none"
    initialStatesRef,   \* the position Controls recorded at mount
    holdStart           \* the frames of the running long press: <<>> before the first,
                        \* then <<the first frame's timestamp, the height before it>>

dragVars == <<impl, app, data, positionFresh, positionRef, lastPointerPosRef,
              isDraggingRef, memo, rafQueue, gestureActive, parentDragging, emitted,
              lastEvent, eventStopped, parentNotified, pointerOfGesture>>

\* What belongs to the model component alone, and what to the control panel alone.
modelVars == <<positionRef, lastPointerPosRef, isDraggingRef, memo, rafQueue,
               gestureActive, parentDragging, lastEvent, eventStopped,
               parentNotified, pointerOfGesture>>
panelVars == <<controlPositionRef, isPressingRef, directionRef, lastTimeRef,
               longPressTimerRef, animationFrameRef, timer, heightRaf, now, pressed,
               initialStatesRef, holdStart>>

\* The rotation animator of one model
VARIABLES
    rotation,           \* the parent's record of the model's rotation: data.rotation
    targetRotation,
    currentRotation,
    lastFrame,          \* what the frame callback did in the last step, "none" if none ran
    rotations           \* how many rotation requests the user has made

rotVars == <<rotation, targetRotation, currentRotation, lastFrame, rotations>>

\* The alignment of the two parts of one model
VARIABLES
    fullBox,            \* Box3 of the full reference model, [min |-> <<x, y, z>>, max |-> ...]
    rectBox,            \* Box3 of the rectangular part
    otherBox,           \* Box3 of the other part
    modelOffset,
    rectangularPartOffset,
    otherPartOffset,
    rotationCenter,
    alignPending,       \* the effect on [fullClone, rectangularClone, otherClone] is due
    partialVisibility   \* data.partialVisibility: which of the two parts are rendered

alignVars == <<fullBox, rectBox, otherBox, modelOffset, rectangularPartOffset,
               otherPartOffset, rotationCenter, alignPending, partialVisibility>>

\* The view cube (ViewCubeContent) and the main camera it drives
VARIABLES
    controlsMounted,    \* mainCameraControlsRef.current is not null
    cameraPosition,     \* mainCamera.position
    cameraQuaternion,   \* mainCamera.quaternion
    controlsTarget,     \* controls.target
    cubeQuaternion,     \* cubeRef.current.quaternion
    activeFace,
    faceWritten,        \* the last step called setActiveFace
    clickedFace,        \* the label of the last navigation begun, "" before the first
    isDragging,         \* the isDragging state of the widget
    dragStateRef,       \* dragStateRef.current: isDragging, velocity, lastDelta, dampingActive
    animationRef,       \* animationRef.current holds an animation frame id
    cubeRafQueue,       \* the callbacks requested for the next animation frame, oldest first
    cubeFrame,          \* the callbacks the running animation frame has still to call
    cubeGesture,        \* the gesture library is between the first and last event of a drag
    clicks,             \* how many faces have been clicked
    cubeDrags,          \* how many drags of the cube have begun
    cubeMoves           \* how many drag events after the first of their drag

cubeVars == <<controlsMounted, cameraPosition, cameraQuaternion, controlsTarget,
              cubeQuaternion, activeFace, faceWritten, clickedFace, isDragging,
              dragStateRef,
              animationRef, cubeRafQueue, cubeFrame, cubeGesture, clicks, cubeDrags,
              cubeMoves>>

\* The model cache (the ModelCache singleton of part_000)
VARIABLES
    cache,              \* the Map: a function from the cached urls to their items
    dateNow,            \* Date.now(), in milliseconds
    cacheLog            \* the calls made so far and what they returned, oldest first

cacheVars == <<cache, dateNow, cacheLog>>

vars == <<dragVars, panelVars, rotVars, alignVars, cubeVars, cacheVars>>

\* What a step of the drag controller, of the control panel, of the rotation animator,
\* of the alignment, of the view cube and of the cache leaves alone.
outsideDrag == <<panelVars, rotVars, alignVars, cubeVars, cacheVars>>
outsidePanel == <<modelVars, rotVars, alignVars, cubeVars, cacheVars>>
outsideRot == <<dragVars, panelVars, alignVars, cubeVars, cacheVars>>
outsideAlign == <<dragVars, panelVars, rotVars, cubeVars, cacheVars>>
outsideCube == <<dragVars, panelVars, rotVars, alignVars, cacheVars>>
outsideCache == <<dragVars, panelVars, rotVars, alignVars, cubeVars>>

---------------------------------------------------------------------------
(* Numbers *)

UNIT == 10 * 10 * 10 * 10 * 10

Min(a, b) == IF a < b THEN a ELSE b
Max(a, b) == IF a > b THEN a ELSE b
Abs(a) == IF a < 0 THEN -a ELSE a

\* n / d rounded to the nearest whole number
Round(n, d) == (2 * n + d) \div (2 * d)

\* Ground boundaries (6x6 grid = -3 to 3 in X and Z)
GRID_SIZE == 6
BOUNDARY_MIN == -(GRID_SIZE * UNIT) \div 2
BOUNDARY_MAX == (GRID_SIZE * UNIT) \div 2

\* A clamp that lets every coordinate through.
ClampUnbounded(v) == v
\* Math.max(BOUNDARY_MIN, Math.min(BOUNDARY_MAX, v))
Clamp(v) == Max(BOUNDARY_MIN, Min(BOUNDARY_MAX, v))

\* The speed before it was lowered for precision.
moveSpeedBeforeLowering == (5 * UNIT) \div 100
\* moveSpeed = 0.008 world units per pixel (BuildingModel.tsx), 0.05 (part_002)
moveSpeed == (8 * UNIT) \div 1000
moveSpeedLegacy == (5 * UNIT) \div 100

---------------------------------------------------------------------------
(* The scene the parent creates *)

ModelIds == {"model-1", "model-2"}

\* position: [-3.333, 1, 0] and [3.333, 1, 0]
InitialPosition(id) ==
    IF id = "model-1" THEN <<-(3333 * UNIT) \div 1000, UNIT, 0>>
                      ELSE <<(3333 * UNIT) \div 1000, UNIT, 0>>

\* The mutation sink: onUpdate(id, {position}) stores the position; the array is new.
OnUpdatePosition(s, p) ==
    [s EXCEPT !.app = [s.app EXCEPT !.position = p],
              !.positionFresh = TRUE,
              !.emitted = Append(s.emitted, p)]

\* The selection collaborator: onSelect(id) makes this model the selected one.
OnSelect(s) == [s EXCEPT !.app = [s.app EXCEPT !.selected = TRUE], !.selectCalled = TRUE]

---------------------------------------------------------------------------
(* The drag controller.  A handler is a function of the component's state *)
(* s (the variables above as a record) and the event's fields.            *)

DragState ==
    [app |-> app, data |-> data, positionFresh |-> positionFresh,
     positionRef |-> positionRef, lastPointerPosRef |-> lastPointerPosRef,
     isDraggingRef |-> isDraggingRef, memo |-> memo, rafQueue |-> rafQueue,
     parentDragging |-> parentDragging, emitted |-> <<>>, selectCalled |-> FALSE,
     stopped |-> FALSE, pointerStored |-> FALSE, notified |-> "none"]

\* onDragStart of BuildingModel.tsx
OnDragStartCurrent(s, touches) ==
    IF touches = 1
    THEN LET s1 == [s EXCEPT !.stopped = TRUE]
             s2 == IF ~s1.data.selected THEN OnSelect(s1) ELSE s1
         IN  [s2 EXCEPT !.parentDragging = TRUE,
                        !.notified = "start",
                        !.isDraggingRef = TRUE,
                        !.lastPointerPosRef = <<>>]
    ELSE s

\* onDragStart of part_002
OnDragStartLegacy(s, touches) ==
    IF touches = 1
    THEN LET s1 == [s EXCEPT !.stopped = TRUE]
             s2 == IF ~s1.data.selected THEN OnSelect(s1) ELSE s1
         IN  [s2 EXCEPT !.parentDragging = TRUE, !.notified = "start"]
    ELSE s

\* A move that lifts: X from the horizontal delta, Y from the inverted vertical delta.
NewPositionLifted(currentPos, deltaX, deltaY) ==
    <<Clamp(currentPos[1] + deltaX * moveSpeed),
      currentPos[2] - deltaY * moveSpeed,
      currentPos[3]>>
\* The new position of a move of BuildingModel.tsx: X and Z clamped, Y kept.
NewPositionCurrent(currentPos, deltaX, deltaY) ==
    <<Clamp(currentPos[1] + deltaX * moveSpeed),
      currentPos[2],
      Clamp(currentPos[3] + deltaY * moveSpeed)>>

\* onDrag of BuildingModel.tsx; the onUpdate call waits in requestAnimationFrame
OnDragCurrent(s, xy, touches, first) ==
    IF touches = 1 /\ s.data.selected
    THEN LET s1 == [s EXCEPT !.stopped = TRUE]
         IN  IF first \/ s1.lastPointerPosRef = <<>>
             THEN [s1 EXCEPT !.lastPointerPosRef = xy, !.pointerStored = TRUE]
             ELSE LET deltaX == xy[1] - s1.lastPointerPosRef[1]
                      deltaY == xy[2] - s1.lastPointerPosRef[2]
                      newPosition == NewPositionCurrent(s1.positionRef, deltaX, deltaY)
                  IN  [s1 EXCEPT !.lastPointerPosRef = xy,
                                 !.pointerStored = TRUE,
                                 !.positionRef = newPosition,
                                 !.rafQueue = Append(s1.rafQueue, newPosition)]
    ELSE s

\* The new position of a move of part_002: from the position at the gesture's start.
NewPositionLegacy(initialPos, x, y) ==
    <<Clamp(initialPos[1] + x * moveSpeedLegacy),
      initialPos[2],
      Clamp(initialPos[3] + y * moveSpeedLegacy)>>

\* onDrag of part_002; memo defaults to the props' position on the gesture's first call
OnDragLegacy(s, movement, touches) ==
    LET m  == IF s.memo = <<>> THEN <<s.data.position>> ELSE s.memo
        s1 == [s EXCEPT !.memo = m]
    IN  IF touches = 1
        THEN LET s2 == [s1 EXCEPT !.stopped = TRUE]
             IN  IF ~s2.data.selected
                 THEN s2
                 ELSE OnUpdatePosition(s2, NewPositionLegacy(m[1], movement[1], movement[2]))
        ELSE s1

\* onDragEnd of BuildingModel.tsx
OnDragEndCurrent(s, touches) ==
    IF touches = 0
    THEN [s EXCEPT !.isDraggingRef = FALSE,
                   !.lastPointerPosRef = <<>>,
                   !.parentDragging = FALSE,
                   !.notified = "end"]
    ELSE s

\* onDragEnd of part_002
OnDragEndLegacy(s, touches) ==
    IF touches = 0 THEN [s EXCEPT !.parentDragging = FALSE, !.notified = "end"] ELSE s

OnDragStart(s, touches) ==
    IF impl = "current" THEN OnDragStartCurrent(s, touches) ELSE OnDragStartLegacy(s, touches)

\* BuildingModel.tsx reads the event's xy (the pointer), part_002 its movement (the
\* pointer's displacement since the gesture began).
OnDrag(s, xy, touches, first) ==
    IF impl = "current"
    THEN OnDragCurrent(s, xy, touches, first)
    ELSE OnDragLegacy(s, xy, touches)

OnDragEnd(s, touches) ==
    IF impl = "current" THEN OnDragEndCurrent(s, touches) ELSE OnDragEndLegacy(s, touches)

---------------------------------------------------------------------------
(* The events of the drag specification *)

MaxRaf == 1

\* Screen coordinates in pixels: the pointer is at the origin or at a far point, so a
\* move displaces it along both axes.  part_002 moves 6.25 times as far per pixel, so
\* its far point is chosen to give the same world displacement (6 and 8 units).
PointerFar == IF impl = "current" THEN <<750, 1000>> ELSE <<120, 160>>
PointerXY == {<<0, 0>>, PointerFar}

TouchesDown == {1, 2}
TouchesUp == {0, 1}

NoEvent == [touches |-> 0, xy |-> <<0, 0>>]

\* The variables after a handler has run to the state s.
Commit(s, ev, ptr) ==
    /\ Len(s.rafQueue) <= MaxRaf
    /\ app' = s.app
    /\ data' = s.data
    /\ positionFresh' = s.positionFresh
    /\ positionRef' = s.positionRef
    /\ lastPointerPosRef' = s.lastPointerPosRef
    /\ isDraggingRef' = s.isDraggingRef
    /\ memo' = s.memo
    /\ rafQueue' = s.rafQueue
    /\ parentDragging' = s.parentDragging
    /\ emitted' = s.emitted
    /\ gestureActive' = ptr
    /\ lastEvent' = ev
    /\ eventStopped' = s.stopped
    /\ parentNotified' = s.notified
    /\ pointerOfGesture' = IF s.pointerStored THEN TRUE
                           ELSE IF s.lastPointerPosRef = <<>> \/ (~gestureActive /\ ptr)
                           THEN FALSE
                           ELSE pointerOfGesture
    /\ impl' = impl
    /\ UNCHANGED outsideDrag

\* The first event of a drag: the library resets memo, calls onDragStart, then onDrag
\* with first = true.
DragFirst ==
    \E touches \in TouchesDown, xy \in PointerXY :
        /\ ~gestureActive
        /\ LET s0 == [DragState EXCEPT !.memo = <<>>]
               s1 == OnDragStart(s0, touches)
               s2 == OnDrag(s1, xy, touches, TRUE)
           IN  Commit(s2, [touches |-> touches, xy |-> xy], TRUE)

\* A pointer move during a drag: onDrag
DragMove ==
    \E touches \in TouchesDown, xy \in PointerXY :
        /\ gestureActive
        /\ LET s1 == OnDrag(DragState, xy, touches, FALSE)
           IN  Commit(s1, [touches |-> touches, xy |-> xy], TRUE)

\* The last event of a drag (pointer up or cancel): onDrag, then onDragEnd
DragLast ==
    \E touches \in TouchesUp, xy \in PointerXY :
        /\ gestureActive
        /\ LET s1 == OnDrag(DragState, xy, touches, FALSE)
               s2 == OnDragEnd(s1, touches)
           IN  Commit(s2, [touches |-> touches, xy |-> xy], FALSE)

\* A tap on the model: onClick stops the event and calls onSelect
Click ==
    /\ ~gestureActive
    /\ ~app.selected
    /\ Commit(OnSelect([DragState EXCEPT !.stopped = TRUE]), lastEvent, gestureActive)

\* The user selects the other model: this one is no longer the selected one.
SelectOther ==
    /\ app.selected
    /\ Commit([DragState EXCEPT !.app = [app EXCEPT !.selected = FALSE]],
              lastEvent, gestureActive)

RECURSIVE Deliver(_, _)
Deliver(s, q) == IF q = <<>> THEN s ELSE Deliver(OnUpdatePosition(s, Head(q)), Tail(q))

\* An animation frame: every pending requestAnimationFrame callback calls onUpdate.
FlushRaf ==
    /\ rafQueue # <<>>
    /\ Commit(Deliver([DragState EXCEPT !.rafQueue = <<>>], rafQueue),
              lastEvent, gestureActive)

\* React renders BuildingModel when JSON.stringify(data) differs, and the effect on
\* [data.position] copies a new position array into positionRef.
Render ==
    /\ app # data
    /\ Commit([DragState EXCEPT !.data = app,
                                !.positionFresh = FALSE,
                                !.positionRef = IF positionFresh THEN app.position
                                                ELSE positionRef],
              lastEvent, gestureActive)

---------------------------------------------------------------------------
(* The camera's geometry (three.js Vector3 and Quaternion, in fixed point) *)

\* Camera positions are in CAM_UNIT quanta per world unit; unit vectors, sines, cosines
\* and angles in radians are in DIR_UNIT quanta; drag velocities in VEL_UNIT per pixel.
CAM_UNIT == 10 * 10 * 10
DIR_UNIT == 10 * 10 * 10 * 10
VEL_UNIT == 10 * 10 * 10

Sub(a, b) == <<a[1] - b[1], a[2] - b[2], a[3] - b[3]>>
Add(a, b) == <<a[1] + b[1], a[2] + b[2], a[3] + b[3]>>
Dot(a, b) == a[1] * b[1] + a[2] * b[2] + a[3] * b[3]
Cross(a, b) == <<a[2] * b[3] - a[3] * b[2], a[3] * b[1] - a[1] * b[3],
                 a[1] * b[2] - a[2] * b[1]>>
\* v * n / d
Scaled(v, n, d) == <<Round(v[1] * n, d), Round(v[2] * n, d), Round(v[3] * n, d)>>

\* The largest r in lo..hi with r * r <= n
RECURSIVE RootBetween(_, _, _)
RootBetween(n, lo, hi) ==
    IF lo = hi THEN lo
    ELSE LET mid == (lo + hi + 1) \div 2
         IN  IF mid * mid <= n THEN RootBetween(n, mid, hi)
             ELSE RootBetween(n, lo, mid - 1)

\* Math.sqrt, to the nearest whole number
Sqrt(n) ==
    LET r == RootBetween(n, 0, Min(n, 46340))
    IN  IF n - r * r > r THEN r + 1 ELSE r

\* Vector3.length, Vector3.distanceTo, Vector3.normalize
Length(v) == Sqrt(Dot(v, v))
DistanceTo(a, b) == Length(Sub(a, b))
Normalize(v) ==
    LET len == Length(v)
    IN  IF len = 0 THEN <<0, 0, 0>> ELSE Scaled(v, DIR_UNIT, len)

\* Math.sin and Math.cos of an angle of at most two radians, by their power series
SquareOf(x) == Round(x * x, DIR_UNIT)
Sin(x) ==
    LET x2 == SquareOf(x)
        t3 == DIR_UNIT - Round(x2, 42)
        t2 == DIR_UNIT - Round(x2 * t3, 20 * DIR_UNIT)
        t1 == DIR_UNIT - Round(x2 * t2, 6 * DIR_UNIT)
    IN  Round(x * t1, DIR_UNIT)
Cos(x) ==
    LET x2 == SquareOf(x)
        t4 == DIR_UNIT - Round(x2, 56)
        t3 == DIR_UNIT - Round(x2 * t4, 30 * DIR_UNIT)
        t2 == DIR_UNIT - Round(x2 * t3, 12 * DIR_UNIT)
    IN  DIR_UNIT - Round(x2 * t2, 2 * DIR_UNIT)

\* v.applyQuaternion(new Quaternion().setFromAxisAngle(new Vector3(0, 1, 0), angle))
RotateY(v, angle) ==
    <<Round(v[1] * Cos(angle) + v[3] * Sin(angle), DIR_UNIT),
      v[2],
      Round(v[3] * Cos(angle) - v[1] * Sin(angle), DIR_UNIT)>>

\* v.applyQuaternion(new Quaternion().setFromAxisAngle(axis, angle)), axis a unit vector
RotateAbout(axis, v, angle) ==
    LET c == Cos(angle)
        s == Sin(angle)
        cross == Scaled(Cross(axis, v), 1, DIR_UNIT)
        along == Round(Round(Dot(axis, v), DIR_UNIT) * (DIR_UNIT - c), DIR_UNIT)
    IN  <<Round(v[1] * c + cross[1] * s + axis[1] * along, DIR_UNIT),
          Round(v[2] * c + cross[2] * s + axis[2] * along, DIR_UNIT),
          Round(v[3] * c + cross[3] * s + axis[3] * along, DIR_UNIT)>>

\* A quaternion of a camera that looks along `dir` with the world's Y axis up, or the
\* inverse of one.  The identity looks along -Z and is its own inverse.
Forward == <<0, 0, -DIR_UNIT>>
Identity == [dir |-> Forward, inverse |-> FALSE]
\* Quaternion.invert
Invert(q) == IF q.dir = Forward THEN q ELSE [q EXCEPT !.inverse = ~@]
\* Object3D.lookAt(target) of a camera at `position`
LookAt(position, target) ==
    [dir |-> Normalize(Sub(target, position)), inverse |-> FALSE]
\* camera.getWorldDirection
WorldDirection(q) == q.dir
\* cameraRight.setFromMatrixColumn(mainCamera.matrix, 0): the camera's X axis, which for
\* a camera looking straight up or down is the world's X axis
CameraRight(q) ==
    IF q.dir[1] = 0 /\ q.dir[3] = 0 THEN <<DIR_UNIT, 0, 0>>
    ELSE Normalize(<<-q.dir[3], 0, q.dir[1]>>)

\* export const INITIAL_CAMERA_POSITION = [13.5, 13.5, 13.5]
INITIAL_CAMERA_POSITION ==
    <<(135 * CAM_UNIT) \div 10, (135 * CAM_UNIT) \div 10, (135 * CAM_UNIT) \div 10>>

---------------------------------------------------------------------------
\* The model component before any gesture.
ModelIdle ==
    /\ positionRef = app.position
    /\ lastPointerPosRef = <<>>
    /\ isDraggingRef = FALSE
    /\ memo = <<>>
    /\ rafQueue = <<>>
    /\ gestureActive = FALSE
    /\ parentDragging = FALSE
    /\ lastEvent = NoEvent
    /\ eventStopped = FALSE
    /\ parentNotified = "none"
    /\ pointerOfGesture = FALSE

\* The control panel before any press.
PanelIdle ==
    /\ controlPositionRef = app.position
    /\ isPressingRef = FALSE
    /\ directionRef = "none"
    /\ lastTimeRef = 0
    /\ longPressTimerRef = FALSE
    /\ animationFrameRef = FALSE
    /\ timer = <<>>
    /\ heightRaf = FALSE
    /\ now = 0
    /\ pressed = "none"
    /\ initialStatesRef = app.position
    /\ holdStart = <<>>

\* The rotation animator at mount: useState(data.rotation), and no rotation yet.
RotIdle ==
    /\ rotation = <<0, 0, 0>>
    /\ targetRotation = rotation
    /\ currentRotation = rotation
    /\ lastFrame = "none"
    /\ rotations = 0

\* A Box3 and the zero vector
Box(lo, hi) == [min |-> lo, max |-> hi]
ZeroVector == <<0, 0, 0>>

\* data.partialVisibility || { rectangularParts: true, otherParts: true }
DefaultVisibility == [rectangularParts |-> TRUE, otherParts |-> TRUE]

\* The cache as constructed: new Map(), and no call made
EmptyCache == [url \in {} |-> 0]
CacheIdle ==
    /\ cache = EmptyCache
    /\ dateNow = 0
    /\ cacheLog = <<>>

\* The parts of a model whose alignment plays no part: unit boxes, already aligned.
AlignIdle ==
    /\ fullBox = Box(ZeroVector, <<UNIT, UNIT, UNIT>>)
    /\ rectBox = fullBox
    /\ otherBox = fullBox
    /\ modelOffset = ZeroVector
    /\ rectangularPartOffset = ZeroVector
    /\ otherPartOffset = ZeroVector
    /\ rotationCenter = ZeroVector
    /\ alignPending = FALSE
    /\ partialVisibility = DefaultVisibility

\* The callbacks of the animation frames: the render loop of the cube's canvas, which
\* calls useFrame, and the damping's animate.  A navigation's animate closure has the
\* same fields, filled with what it captured and the time since its startTime.
FrameCallback ==
    [kind |-> "frame", faceName |-> "", distance |-> 0, startPos |-> <<0, 0, 0>>,
     newPosition |-> <<0, 0, 0>>, elapsed |-> 0]
DampingCallback == [FrameCallback EXCEPT !.kind = "damping"]

\* The view cube at mount: the cube's group has the identity quaternion, the
\* face '前' (front) is active, nothing is dragged or animated.  The main camera is at
\* its initial position, looking at the controls' target.
CubeAtMount(target) ==
    /\ controlsMounted = FALSE
    /\ cameraPosition = INITIAL_CAMERA_POSITION
    /\ controlsTarget = target
    /\ cameraQuaternion = LookAt(cameraPosition, controlsTarget)
    /\ cubeQuaternion = Identity
    /\ activeFace = "front"
    /\ faceWritten = FALSE
    /\ clickedFace = ""
    /\ isDragging = FALSE
    /\ dragStateRef = [isDragging |-> FALSE, velocity |-> <<0, 0>>,
                       lastDelta |-> <<0, 0>>, dampingActive |-> FALSE]
    /\ animationRef = FALSE
    /\ cubeRafQueue = <<FrameCallback>>
    /\ cubeFrame = <<>>
    /\ cubeGesture = FALSE
    /\ clicks = 0
    /\ cubeDrags = 0
    /\ cubeMoves = 0

\* The view cube where it plays no part
CubeIdle == CubeAtMount(<<0, 0, 0>>)

InitDrag ==
    /\ impl \in {"current", "legacy"}
    /\ \E id \in ModelIds :
          app = [id |-> id, position |-> InitialPosition(id), selected |-> FALSE]
    /\ data = app
    /\ positionFresh = FALSE
    /\ emitted = <<>>
    /\ ModelIdle
    /\ PanelIdle
    /\ RotIdle
    /\ AlignIdle
    /\ CubeIdle
    /\ CacheIdle

NextDrag ==
    \/ DragFirst
    \/ DragMove
    \/ DragLast
    \/ Click
    \/ SelectOther
    \/ FlushRaf
    \/ Render

SpecDrag == InitDrag /\ [][NextDrag]_vars

---------------------------------------------------------------------------
(* Properties of the drag controller *)

InBoundary(v) == BOUNDARY_MIN <= v /\ v <= BOUNDARY_MAX

\* The positions the drag controller has handed to onUpdate in this step or has
\* scheduled to hand over in the next animation frame.
DragOutputs == {emitted[i] : i \in 1..Len(emitted)} \cup {rafQueue[i] : i \in 1..Len(rafQueue)}

\* C1: every position the drag controller emits through onUpdate has x and z inside
\* [-3, 3], and clamping an emitted x or z again returns the same value.
C1_EmittedInBoundary ==
    \A p \in DragOutputs :
        /\ InBoundary(p[1]) /\ InBoundary(p[3])
        /\ Clamp(p[1]) = p[1] /\ Clamp(p[3]) = p[3]

\* A position was emitted whose x and z the clamp had to cut back to the boundary,
\* and it has reached the parent.
C1_Witness ==
    /\ \E i \in 1..Len(emitted) :
          emitted[i][1] = BOUNDARY_MAX /\ emitted[i][3] = BOUNDARY_MAX
    /\ app.position[1] = BOUNDARY_MAX

\* The positions a step hands to onUpdate or newly schedules.
NewDragOutputs ==
    {emitted'[i] : i \in 1..Len(emitted')}
        \cup {rafQueue'[i] : i \in (Len(rafQueue) + 1)..Len(rafQueue')}

\* C2: a position a drag move passes to onUpdate has exactly the y the model had
\* before the move, and no step of a drag changes the model's y.
C2_DragKeepsY ==
    [][/\ \A p \in NewDragOutputs : p[2] = app.position[2]
       /\ app'.position[2] = app.position[2]]_vars

\* A single-finger move of a selected model has displaced it in x and z, and the
\* position has reached the parent with the y of the start.
C2_Witness ==
    /\ lastEvent.touches = 1
    /\ emitted # <<>>
    /\ app.position[1] # InitialPosition(app.id)[1]
    /\ app.position[3] # 0
    /\ app.position[2] = InitialPosition(app.id)[2]

\* A move event with two contact points whose pointer has moved vertically since
\* the gesture's previous event, on a model rendered as selected.
TwoFingerMove ==
    /\ gestureActive
    /\ data.selected
    /\ lastEvent'.touches = 2
    /\ lastEvent'.xy[2] # lastEvent.xy[2]

\* C3: a two-finger move changes the model's y: it hands to onUpdate, or schedules,
\* a position whose y differs from the one the model had.
C3_TwoFingerMovesY ==
    [][TwoFingerMove => \E p \in NewDragOutputs : p[2] # app.position[2]]_vars

\* C4: in every reachable state, the initial one included, the model's x and z lie
\* within the ground boundary.
C4_PositionInBoundary == InBoundary(app.position[1]) /\ InBoundary(app.position[3])

\* C12: once a gesture has ended, with whatever touch count its last event reported,
\* the drag session is cleared: isDragging is false and the last pointer is null.
C12_EndClearsSession == ~gestureActive => (~isDraggingRef /\ lastPointerPosRef = <<>>)

\* A gesture begins on a model that is not selected, neither for the parent nor in
\* the props the handlers read.
GestureStartsUnselected ==
    /\ ~gestureActive
    /\ gestureActive'
    /\ ~app.selected
    /\ ~data.selected

\* C14: the first event of a gesture on a model that is not selected calls onSelect,
\* and hands no position to onUpdate, at once or in a scheduled callback.
C14_SelectsAtGestureStart ==
    [][GestureStartsUnselected => (app'.selected /\ NewDragOutputs = {})]_vars

\* The browser runs an animation frame.  The render loop's callback was requested
\* before those of the drag events, so the frame's tick comes before the onUpdate
\* calls of the frame and reads what the parent holds when the frame begins.
AnimationFrame == rafQueue # <<>> /\ rafQueue' = <<>>

\* C20: when an animation frame begins, the parent holds the latest position a
\* pointer move has computed: the frame's tick sees no older position.
C20_MoveDeliveredBeforeFrame == [][AnimationFrame => app.position = positionRef]_vars

\* The step is an event of a drag, its release apart, with the given number of
\* contact points.
DragEventWith(touches) ==
    /\ gestureActive'
    /\ lastEvent'.touches = touches
    /\ (~gestureActive \/ lastEvent' # lastEvent)

\* A pointer move with one contact point inside a gesture that has begun.
MoveOfGesture == gestureActive /\ DragEventWith(1)

\* C38: a drag event hands over a position only while the selected flag the handlers
\* read is true, and a one-finger move of a gesture on a model whose flag is still
\* false changes no position and finds the selection requested.
C38_MovesOnlySelectedModel ==
    [][ /\ ((~AnimationFrame /\ NewDragOutputs # {}) => data.selected)
        /\ ((MoveOfGesture /\ ~data.selected) =>
                (NewDragOutputs = {} /\ app'.selected)) ]_vars

\* An event with two contact points is not stopped and changes nothing: no onSelect,
\* no onDragStart notification, no position.
MultiTouchFallsThrough ==
    DragEventWith(2) =>
        /\ ~eventStopped'
        /\ app' = app
        /\ parentDragging' = parentDragging
        /\ positionRef' = positionRef
        /\ NewDragOutputs = {}

\* While a single-finger drag is active (the parent has been told of its start) its
\* events are stopped.
SingleFingerStopped == (DragEventWith(1) /\ parentDragging') => eventStopped'

\* An event that follows an event of the same gesture that fell through to the orbit
\* control moves nothing.
FallenThroughNeverMoves ==
    (gestureActive /\ lastEvent.touches = 2 /\ DragEventWith(1)) => NewDragOutputs = {}

\* C23: the handlers leave an event with more than one contact point alone, so that it
\* falls through to the orbit control; they stop every event of an active
\* single-finger drag; and so no gesture both moves the model and orbits the camera.
C23_MoveAndOrbitExclusive ==
    [][MultiTouchFallsThrough /\ SingleFingerStopped /\ FallenThroughNeverMoves]_vars

\* C36: once a gesture is over the parent is not left dragging; the parent is told of
\* an end only after a start not yet ended, and of a start only when the start before
\* it has been ended: starts and ends alternate, one end to a start.
C36_StartsAndEndsPaired ==
    /\ [](~gestureActive => ~parentDragging)
    /\ [][/\ parentNotified' = "end" => parentDragging
          /\ parentNotified' = "start" => ~parentDragging]_vars

\* The step is the first event of a gesture on the handlers of BuildingModel.tsx
GestureStart == impl = "current" /\ ~gestureActive /\ gestureActive'

\* The first event of a gesture leaves no pointer of an earlier gesture: the last
\* pointer is null, or the pointer of this event.
PointerResetAtStart ==
    GestureStart =>
        lastPointerPosRef' = IF pointerOfGesture' THEN lastEvent'.xy ELSE <<>>

\* The first event of a gesture moves nothing.
FirstMoveOnlyRecords ==
    GestureStart => (NewDragOutputs = {} /\ positionRef' = positionRef)

\* An event that moves the model takes its delta from a pointer that an earlier event
\* of the same gesture stored.
DeltaWithinGesture ==
    (impl = "current" /\ gestureActive /\ NewDragOutputs # {}) =>
        (lastPointerPosRef # <<>> /\ pointerOfGesture)

\* C30: at the start of every gesture the last pointer is reset, the first event of
\* the gesture only records the pointer and moves nothing, and no move takes its delta
\* from a pointer stored in an earlier gesture.
C30_NoPointerAcrossGestures ==
    [][PointerResetAtStart /\ FirstMoveOnlyRecords /\ DeltaWithinGesture]_vars

---------------------------------------------------------------------------
(* The height controls of the control panel.  The older panel (the first  *)
(* ControlPanel of BuildingModel.tsx) steps from the props of the last    *)
(* render and has no long press; the newer one (the second ControlPanel   *)
(* of BuildingModel.tsx, the same in part_003) steps from its positionRef.*)

\* step = 0.025 per click; speed = 0.15 per second, in quanta per millisecond;
\* the first long-press frame counts as 0.016 s; the long press starts after 150 ms
HEIGHT_STEP == (25 * UNIT) \div 1000
HEIGHT_SPEED == (15 * UNIT) \div (100 * 1000)
FIRST_FRAME_MS == 16
LONG_PRESS_MS == 150

Directions == {"up", "down"}

PanelState ==
    [app |-> app, data |-> data, positionFresh |-> positionFresh,
     controlPositionRef |-> controlPositionRef, isPressingRef |-> isPressingRef,
     directionRef |-> directionRef, lastTimeRef |-> lastTimeRef,
     longPressTimerRef |-> longPressTimerRef, animationFrameRef |-> animationFrameRef,
     timer |-> timer, heightRaf |-> heightRaf, emitted |-> <<>>]

\* A height that may go below the ground.
MoveYUnclamped(y, direction, step) == IF direction = "up" THEN y + step ELSE y - step
\* currentPos[1] += step, or currentPos[1] = Math.max(0, currentPos[1] - step)
MoveY(y, direction, step) == IF direction = "up" THEN y + step ELSE Max(0, y - step)

\* adjustHeight of the older panel: from model.position, the props
AdjustHeightLegacy(s, direction) ==
    LET currentPos == s.data.position
    IN  OnUpdatePosition(s, <<currentPos[1], MoveY(currentPos[2], direction, HEIGHT_STEP),
                              currentPos[3]>>)

\* adjustHeight of the newer panel: from positionRef.current, which it updates
AdjustHeightCurrent(s, direction) ==
    LET currentPos == s.controlPositionRef
        newPos     == <<currentPos[1], MoveY(currentPos[2], direction, HEIGHT_STEP),
                        currentPos[3]>>
    IN  OnUpdatePosition([s EXCEPT !.controlPositionRef = newPos], newPos)

\* A frame that steps by the same amount whatever the time since the last one.
AnimateHeightPerFrame(s, timestamp) ==
    IF ~s.isPressingRef \/ s.directionRef = "none"
    THEN [s EXCEPT !.heightRaf = FALSE]
    ELSE LET step       == HEIGHT_SPEED * FIRST_FRAME_MS
             currentPos == s.controlPositionRef
             newPos     == <<currentPos[1], MoveY(currentPos[2], s.directionRef, step),
                             currentPos[3]>>
             s1         == [s EXCEPT !.lastTimeRef = timestamp,
                                     !.controlPositionRef = newPos]
             s2         == OnUpdatePosition(s1, newPos)
         IN  [s2 EXCEPT !.animationFrameRef = TRUE, !.heightRaf = TRUE]
\* animateHeight(timestamp): one frame of the long press
AnimateHeight(s, timestamp) ==
    IF ~s.isPressingRef \/ s.directionRef = "none"
    THEN [s EXCEPT !.heightRaf = FALSE]
    ELSE LET deltaTime  == IF s.lastTimeRef # 0 THEN timestamp - s.lastTimeRef
                                                ELSE FIRST_FRAME_MS
             step       == HEIGHT_SPEED * deltaTime
             currentPos == s.controlPositionRef
             newPos     == <<currentPos[1], MoveY(currentPos[2], s.directionRef, step),
                             currentPos[3]>>
             s1         == [s EXCEPT !.lastTimeRef = timestamp,
                                     !.controlPositionRef = newPos]
             s2         == OnUpdatePosition(s1, newPos)
         IN  [s2 EXCEPT !.animationFrameRef = TRUE, !.heightRaf = TRUE]

\* A clearing that forgets the animation frame.
ClearAllTimersKeepsFrame(s) ==
    LET s1 == IF s.longPressTimerRef
              THEN [s EXCEPT !.timer = <<>>, !.longPressTimerRef = FALSE]
              ELSE s
    IN  [s1 EXCEPT !.lastTimeRef = 0]
\* clearAllTimers
ClearAllTimers(s) ==
    LET s1 == IF s.longPressTimerRef
              THEN [s EXCEPT !.timer = <<>>, !.longPressTimerRef = FALSE]
              ELSE s
        s2 == IF s1.animationFrameRef
              THEN [s1 EXCEPT !.heightRaf = FALSE, !.animationFrameRef = FALSE]
              ELSE s1
    IN  [s2 EXCEPT !.isPressingRef = FALSE, !.directionRef = "none", !.lastTimeRef = 0]

\* A press that clears nothing before it arms its timer.
StartLongPressKeeping(s, direction, t) ==
    [s EXCEPT !.timer = <<direction, t + LONG_PRESS_MS>>, !.longPressTimerRef = TRUE]
\* startLongPress(direction)
StartLongPress(s, direction, t) ==
    LET s1 == ClearAllTimers(s)
    IN  [s1 EXCEPT !.timer = <<direction, t + LONG_PRESS_MS>>, !.longPressTimerRef = TRUE]

\* The callback of the 150 ms timer
LongPressTimeout(s, direction) ==
    [s EXCEPT !.timer = <<>>,
              !.isPressingRef = TRUE,
              !.directionRef = direction,
              !.lastTimeRef = 0,
              !.animationFrameRef = TRUE,
              !.heightRaf = TRUE]

\* stopLongPress
StopLongPress(s) == ClearAllTimers(s)

---------------------------------------------------------------------------
(* The events of the height specification *)

MaxY == 7500
MaxTime == 400
TickMs == {50, 100}
StartYs == {0, 1000, 5000}

\* The variables after a panel handler has run to the state s.
CommitPanel(s, t, btn) ==
    /\ s.app.position[2] <= MaxY
    /\ app' = s.app
    /\ data' = s.data
    /\ positionFresh' = s.positionFresh
    /\ controlPositionRef' = s.controlPositionRef
    /\ isPressingRef' = s.isPressingRef
    /\ directionRef' = s.directionRef
    /\ lastTimeRef' = s.lastTimeRef
    /\ longPressTimerRef' = s.longPressTimerRef
    /\ animationFrameRef' = s.animationFrameRef
    /\ timer' = s.timer
    /\ heightRaf' = s.heightRaf
    /\ emitted' = s.emitted
    /\ now' = t
    /\ pressed' = btn
    /\ holdStart' = IF s.lastTimeRef = 0 THEN <<>>
                    ELSE IF lastTimeRef = 0 THEN <<t, controlPositionRef[2]>>
                    ELSE holdStart
    /\ UNCHANGED <<impl, initialStatesRef, outsidePanel>>

\* The panel is mounted until its teardown; Controls unmounts with its panels.
PanelMounted == pressed # "unmounted"

\* The pointer goes down on a height button: onMouseDown / onTouchStart
Press ==
    \E direction \in Directions :
        /\ pressed = "none"
        /\ CommitPanel(IF impl = "current" THEN StartLongPress(PanelState, direction, now)
                                           ELSE PanelState,
                       now, direction)

\* The pointer goes up on the button it holds: onMouseUp / onTouchEnd, then onClick
Release ==
    /\ pressed \in Directions
    /\ CommitPanel(IF impl = "current"
                   THEN AdjustHeightCurrent(StopLongPress(PanelState), pressed)
                   ELSE AdjustHeightLegacy(PanelState, pressed),
                   now, "none")

\* The pointer leaves the button it holds: onMouseLeave, and no click follows
Leave ==
    /\ pressed \in Directions
    /\ CommitPanel(IF impl = "current" THEN StopLongPress(PanelState) ELSE PanelState,
                   now, "none")

\* The panel unmounts: the cleanup of the effect calls clearAllTimers
Teardown ==
    /\ impl = "current"
    /\ PanelMounted
    /\ CommitPanel(ClearAllTimers(PanelState), now, "unmounted")

\* The 150 ms timer expires
TimerFire ==
    /\ timer # <<>>
    /\ now >= timer[2]
    /\ CommitPanel(LongPressTimeout(PanelState, timer[1]), now, pressed)

\* An animation frame runs the pending animateHeight callback; no two frames share
\* a timestamp.
HeightFrame ==
    /\ heightRaf
    /\ lastTimeRef # now
    /\ CommitPanel(AnimateHeight(PanelState, now), now, pressed)

\* Time passes, but not past the expiry of a pending timer.
Tick ==
    \E dt \in TickMs :
        /\ now + dt <= MaxTime
        /\ IF timer = <<>> THEN TRUE ELSE now + dt <= timer[2]
        /\ CommitPanel(PanelState, now + dt, pressed)

\* handleReset of Controls (part_003): back to the position recorded at mount
Reset ==
    /\ impl = "current"
    /\ PanelMounted
    /\ CommitPanel(OnUpdatePosition(PanelState, initialStatesRef), now, pressed)

\* React renders the panel with the parent's model, and the effect on
\* [model.position] copies a new position array into positionRef.
RenderPanel ==
    /\ PanelMounted
    /\ app # data
    /\ CommitPanel([PanelState EXCEPT !.data = app,
                                      !.positionFresh = FALSE,
                                      !.controlPositionRef =
                                          IF positionFresh THEN app.position
                                          ELSE controlPositionRef],
                   now, pressed)

InitHeight ==
    /\ impl \in {"current", "legacy"}
    /\ \E y \in StartYs :
          app = [id |-> "model-1",
                 position |-> <<InitialPosition("model-1")[1], y, 0>>,
                 selected |-> TRUE]
    /\ data = app
    /\ positionFresh = FALSE
    /\ emitted = <<>>
    /\ ModelIdle
    /\ PanelIdle
    /\ RotIdle
    /\ AlignIdle
    /\ CubeIdle
    /\ CacheIdle

NextHeight ==
    \/ Press
    \/ Release
    \/ Leave
    \/ Teardown
    \/ TimerFire
    \/ HeightFrame
    \/ Tick
    \/ Reset
    \/ RenderPanel

SpecHeight == InitHeight /\ [][NextHeight]_vars

---------------------------------------------------------------------------
(* Properties of the height controls *)

\* The height a click steps from: the ref of the newer panel, the props of the older.
ClickBaseY == IF impl = "current" THEN controlPositionRef[2] ELSE data.position[2]

\* A release on the down button that clicks, and a long-press frame going down.
DownClick == pressed = "down" /\ pressed' = "none" /\ emitted' # <<>>
DownFrame ==
    /\ heightRaf /\ directionRef = "down"
    /\ pressed' = pressed /\ lastTimeRef' # lastTimeRef /\ emitted' # <<>>

\* The step of the long-press frame that runs now.
FrameStep ==
    HEIGHT_SPEED * (IF lastTimeRef # 0 THEN now - lastTimeRef ELSE FIRST_FRAME_MS)

HeightNonNegative ==
    /\ app.position[2] >= 0
    /\ controlPositionRef[2] >= 0
    /\ \A i \in 1..Len(emitted) : emitted[i][2] >= 0

\* C5: starting from y >= 0, after any sequence of clicks and long-press frames in
\* either direction y >= 0, and a down step from a y smaller than the step gives
\* exactly 0.
C5_HeightStaysAboveGround ==
    /\ []HeightNonNegative
    /\ [][/\ DownClick /\ ClickBaseY < HEIGHT_STEP
             => emitted'[1][2] = 0 /\ app'.position[2] = 0
          /\ DownFrame /\ controlPositionRef[2] < FrameStep
             => emitted'[1][2] = 0 /\ app'.position[2] = 0]_vars

\* A down click at y = 0.01, less than the step, has put the model on the ground.
C5_Witness ==
    /\ emitted # <<>>
    /\ emitted[1][2] = 0
    /\ app.position[2] = 0
    /\ data.position[2] = 1000
    /\ initialStatesRef[2] = 1000
    /\ pressed = "none"
    /\ now = 0

\* No button is held: the long press, if any, was stopped by a release, by the pointer
\* leaving or by the panel's teardown, and no new press has begun.
LongPressStopped == pressed \notin Directions

\* A frame of the long-press loop that hands a height to onUpdate
LoopFrame ==
    /\ heightRaf
    /\ pressed' = pressed
    /\ lastTimeRef' = now
    /\ lastTimeRef' # lastTimeRef
    /\ emitted' # <<>>

\* C15: once the long press is stopped, and until a new press, the 150 ms timer and the
\* animation frame are both cleared, whichever was pending, and no frame of the loop
\* emits a height.
C15_StopClearsLongPress ==
    /\ [](LongPressStopped =>
            /\ timer = <<>> /\ ~longPressTimerRef
            /\ ~heightRaf /\ ~animationFrameRef
            /\ ~isPressingRef)
    /\ [][LongPressStopped => ~LoopFrame]_vars

\* The panel was torn down after its long-press loop had moved the model: the loop had
\* raised the height by a frame's worth, which no click does, and nothing is pending.
C15_Witness ==
    /\ impl = "current"
    /\ pressed = "unmounted"
    /\ \E y \in StartYs : app.position[2] = y + HEIGHT_SPEED * FIRST_FRAME_MS
    /\ timer = <<>>
    /\ ~heightRaf

---------------------------------------------------------------------------
(* A long press on a height button of the newer panel, its frames at any  *)
(* times: nothing but the panel moves the model while the button is held. *)

InitHold == InitHeight /\ impl = "current"

NextHold ==
    \/ Press
    \/ Release
    \/ Leave
    \/ TimerFire
    \/ HeightFrame
    \/ Tick
    \/ RenderPanel

SpecHold == InitHold /\ [][NextHold]_vars

\* The long press has run a frame
HoldRunning == isPressingRef /\ lastTimeRef # 0

\* What a long press has moved the height by when FIRST_FRAME_MS and the time from
\* its first frame to its last are counted at 0.15 units per second
HoldDisplacement == HEIGHT_SPEED * (FIRST_FRAME_MS + lastTimeRef - holdStart[1])

\* C29: after any frame of a long press the height is the height before the first
\* frame plus, or (if that is not below the ground) minus, 0.15 units per second of
\* the time from the first frame to the last and of the 16 ms the first frame
\* counts: it is the same however many frames ran in between; and every frame after
\* the first moves the height by 0.15 units per second since the frame before.
C29_HoldDependsOnElapsedTime ==
    /\ [](HoldRunning =>
            /\ holdStart # <<>>
            /\ directionRef = "up" =>
                  controlPositionRef[2] = holdStart[2] + HoldDisplacement
            /\ (directionRef = "down" /\ holdStart[2] >= HoldDisplacement) =>
                  controlPositionRef[2] = holdStart[2] - HoldDisplacement
            /\ app.position[2] = controlPositionRef[2])
    /\ [][(LoopFrame /\ lastTimeRef # 0 /\ directionRef = "up") =>
            controlPositionRef'[2]
              = controlPositionRef[2] + HEIGHT_SPEED * (now - lastTimeRef)]_vars

\* A long press upwards has run frames 50 ms and 100 ms apart.
C29_Witness ==
    /\ HoldRunning
    /\ directionRef = "up"
    /\ lastTimeRef - holdStart[1] = 150
    /\ controlPositionRef[2] = holdStart[2] + HEIGHT_SPEED * (FIRST_FRAME_MS + 150)

---------------------------------------------------------------------------
(* Presses on the height buttons of the newer panel by more than one      *)
(* pointer: a second finger, or the mouse, goes down on a button while a  *)
(* press is held.                                                          *)

\* A pointer goes down on a height button while another holds one: onMouseDown /
\* onTouchStart with the timer or the loop of the earlier press still there
PressAgain ==
    \E direction \in Directions :
        /\ impl = "current"
        /\ pressed \in Directions
        /\ timer # <<>> \/ heightRaf
        /\ CommitPanel(StartLongPress(PanelState, direction, now), now, direction)

NextPress ==
    \/ Press
    \/ PressAgain
    \/ Release
    \/ Leave
    \/ TimerFire
    \/ HeightFrame
    \/ Tick
    \/ RenderPanel

SpecPress == InitHold /\ [][NextPress]_vars

\* The pointer goes up on the button it holds before the 150 ms timer has fired, and
\* the click follows
ShortPressReleased ==
    /\ pressed \in Directions
    /\ pressed' = "none"
    /\ timer # <<>>
    /\ emitted' # <<>>

\* The 150 ms timer fires and the loop starts only under a press that is still held
LoopStartsUnderPress ==
    (isPressingRef' /\ ~isPressingRef) =>
        /\ pressed \in Directions
        /\ timer # <<>>
        /\ now >= timer[2]
        /\ directionRef' = timer[1]

\* A press leaves nothing of the press before it: its own timer, no frame, no loop
PressCancelsEarlier ==
    (pressed' \in Directions /\ timer' # <<>> /\ timer' # timer) =>
        /\ timer' = <<pressed', now + LONG_PRESS_MS>>
        /\ ~heightRaf' /\ ~animationFrameRef' /\ ~isPressingRef'

\* At most one loop: a pending timer and a pending frame never coexist, so the timer's
\* callback never requests a frame beside one that is pending, and the pending frame
\* is the one animationFrameRef holds.
AtMostOneLoop ==
    /\ timer # <<>> => (~heightRaf /\ ~isPressingRef)
    /\ heightRaf => animationFrameRef

\* C31, as stated: a press released before the 150 ms timer fires changes the height by
\* exactly 0.025, up or down.
C31_ShortPressMovesOneStep ==
    [][ShortPressReleased =>
            app'.position[2] = MoveYUnclamped(app.position[2], pressed, HEIGHT_STEP)]_vars

\* C31, amended: a press released before the 150 ms timer fires hands one position to
\* onUpdate, with the height 0.025 higher, or 0.025 lower but not below the ground,
\* and leaves no timer, frame or loop; the loop starts only when the timer fires
\* under a press that is still held; a press clears the timer, the frame and the loop
\* of the press before it, and a timer and a frame are never pending together.
C31_ShortPressStepsOnceClamped ==
    /\ []AtMostOneLoop
    /\ [][/\ ShortPressReleased =>
               /\ Len(emitted') = 1
               /\ app'.position[2] = MoveY(app.position[2], pressed, HEIGHT_STEP)
               /\ timer' = <<>> /\ ~heightRaf' /\ ~isPressingRef'
          /\ LoopStartsUnderPress
          /\ PressCancelsEarlier]_vars

\* A press on the down button at height 0.01 was released with a click before 150 ms
\* had passed: the model is on the ground and nothing is pending.
C31_Witness ==
    /\ impl = "current"
    /\ pressed = "none"
    /\ 0 < now /\ now < LONG_PRESS_MS
    /\ Len(emitted) = 1
    /\ initialStatesRef[2] = 1000
    /\ app.position[2] = 0
    /\ timer = <<>>
    /\ ~heightRaf

---------------------------------------------------------------------------
(* The rotation animator: the useFrame callback of BuildingModelContent.  *)
(* Angles are in quanta of 0.001 rad: a quarter turn is 1571, threshold   *)
(* 0.001 is 1.  An ease factor is in thousandths.                         *)

HALF_PI == 1571
QUARTER_PI == 785
THRESHOLD == 1
MAX_EASE == 300

\* easeFactor = Math.min(10 * delta, 0.3) (BuildingModel.tsx), 5 * delta (part_002);
\* delta in milliseconds
EaseFactor(deltaMs) == IF impl = "current" THEN Min(10 * deltaMs, MAX_EASE) ELSE 5 * deltaMs

\* current + (target - current) * easeFactor
Ease(c, t, easeFactor) == c + Round((t - c) * easeFactor, 1000)

\* A guard that every rotation passes.
RotationAlwaysDiffers(c, t) == TRUE
\* currentRotation[0] !== targetRotation[0] || ... [1] ... || ... [2] ...
RotationDiffers(c, t) == c[1] # t[1] \/ c[2] # t[2] \/ c[3] # t[3]

\* Math.abs(target[i] - new[i]) > threshold on some axis
BeyondThreshold(n, t) ==
    \/ Abs(t[1] - n[1]) > THRESHOLD
    \/ Abs(t[2] - n[2]) > THRESHOLD
    \/ Abs(t[3] - n[3]) > THRESHOLD

\* The useFrame callback of BuildingModel.tsx: <<what it did, the rotation it leaves>>
RotationFrameCurrent(c, t, deltaMs) ==
    IF RotationDiffers(c, t)
    THEN LET easeFactor == EaseFactor(deltaMs)
             new == <<Ease(c[1], t[1], easeFactor), Ease(c[2], t[2], easeFactor),
                      Ease(c[3], t[3], easeFactor)>>
         IN  IF BeyondThreshold(new, t) THEN <<"step", new>> ELSE <<"snap", t>>
    ELSE <<"idle", c>>

\* The useFrame callback of part_002: no threshold
RotationFrameLegacy(c, t, deltaMs) ==
    IF RotationDiffers(c, t)
    THEN LET easeFactor == EaseFactor(deltaMs)
         IN  <<"step", <<Ease(c[1], t[1], easeFactor), Ease(c[2], t[2], easeFactor),
                         Ease(c[3], t[3], easeFactor)>>>>
    ELSE <<"idle", c>>

MaxRotations == 1
DeltaMs == {25, 50}

\* A frame of the render loop
RotationFrame ==
    \E deltaMs \in DeltaMs :
        LET r == IF impl = "current"
                 THEN RotationFrameCurrent(currentRotation, targetRotation, deltaMs)
                 ELSE RotationFrameLegacy(currentRotation, targetRotation, deltaMs)
        IN  /\ lastFrame' = r[1]
            /\ currentRotation' = r[2]
            /\ UNCHANGED <<rotation, targetRotation, rotations, outsideRot>>

\* rotateModel('x' | 'z') and rotateClockwise of the control panel
RotateModel ==
    \E axis \in {1, 2, 3} :
        /\ rotations < MaxRotations
        /\ rotations' = rotations + 1
        /\ rotation' = [rotation EXCEPT ![axis] = @ + (IF axis = 2 THEN QUARTER_PI ELSE HALF_PI)]
        /\ lastFrame' = "none"
        /\ UNCHANGED <<targetRotation, currentRotation, outsideRot>>

\* The effect on [data.rotation]: setTargetRotation(data.rotation)
SyncTargetRotation ==
    /\ targetRotation # rotation
    /\ targetRotation' = rotation
    /\ lastFrame' = "none"
    /\ UNCHANGED <<rotation, currentRotation, rotations, outsideRot>>

InitRot ==
    /\ impl \in {"current", "legacy"}
    /\ app = [id |-> "model-1", position |-> InitialPosition("model-1"), selected |-> TRUE]
    /\ data = app
    /\ positionFresh = FALSE
    /\ emitted = <<>>
    /\ ModelIdle
    /\ PanelIdle
    /\ RotIdle
    /\ AlignIdle
    /\ CubeIdle
    /\ CacheIdle

NextRot ==
    \/ RotationFrame
    \/ RotateModel
    \/ SyncTargetRotation

SpecRot == InitRot /\ [][NextRot]_vars

---------------------------------------------------------------------------
(* Properties of the rotation animator *)

\* C6: at rest (currentRotation equal to targetRotation on all three axes) a frame
\* tick, whatever its delta, leaves currentRotation unchanged and issues no state
\* update.
C6_IdempotentAtRest ==
    [][(currentRotation = targetRotation /\ lastFrame' # "none")
          => (currentRotation' = currentRotation /\ lastFrame' = "idle")]_vars

\* The animator has turned the model, has come to rest at a target other than the
\* initial rotation, and a further frame has run there.
C6_Witness ==
    /\ lastFrame = "idle"
    /\ currentRotation = targetRotation
    /\ currentRotation # <<0, 0, 0>>
    /\ impl = "current"

WithinThreshold == ~BeyondThreshold(currentRotation, targetRotation)

\* C7: as soon as a frame tick leaves all three axes within 0.001 of the target,
\* currentRotation is exactly targetRotation.
C7_SnapsToTarget ==
    (lastFrame # "none" /\ WithinThreshold) => currentRotation = targetRotation

---------------------------------------------------------------------------
(* The rotation animator at any frame rate *)

\* The delta of a frame, in milliseconds: two frames within one millisecond, 60 and 20
\* frames per second, and the frame after a stall of a quarter of a second
AnyDeltaMs == {0, 16, 50, 250}

\* A frame of the render loop, whatever the time since the previous one
RotationFrameAtAnyRate ==
    \E deltaMs \in AnyDeltaMs :
        LET r == IF impl = "current"
                 THEN RotationFrameCurrent(currentRotation, targetRotation, deltaMs)
                 ELSE RotationFrameLegacy(currentRotation, targetRotation, deltaMs)
        IN  /\ lastFrame' = r[1]
            /\ currentRotation' = r[2]
            /\ UNCHANGED <<rotation, targetRotation, rotations, outsideRot>>

NextEase ==
    \/ RotationFrameAtAnyRate
    \/ RotateModel
    \/ SyncTargetRotation

SpecEase == InitRot /\ [][NextEase]_vars

\* A frame tick in the animating state that eases; the tick that snaps is another.
EasingTick == currentRotation # targetRotation /\ lastFrame' = "step"

\* C21: on an easing tick every Euler component moves by
\* (target - current) * min(10 * delta, 0.3) for the frame's delta: the new value lies
\* between the current one and the target, never past the target, and the remaining
\* difference is at least 70% of the one before (to the half quantum of the rounding).
C21_EasesWithoutOvershoot ==
    [][EasingTick =>
          /\ \E deltaMs \in AnyDeltaMs :
                \A i \in 1..3 :
                    currentRotation'[i] = currentRotation[i]
                        + Round((targetRotation[i] - currentRotation[i])
                                    * Min(10 * deltaMs, 300), 1000)
          /\ \A i \in 1..3 :
                /\ Min(currentRotation[i], targetRotation[i]) <= currentRotation'[i]
                /\ currentRotation'[i] <= Max(currentRotation[i], targetRotation[i])
                /\ 10 * Abs(targetRotation[i] - currentRotation'[i]) + 5
                       >= 7 * Abs(targetRotation[i] - currentRotation[i])]_vars

---------------------------------------------------------------------------
(* The alignment of the parts: the effect on the three clones.  Box       *)
(* coordinates are in quanta of 1 / UNIT, chosen so that halves and       *)
(* sixths are whole.                                                      *)

\* A ground offset taken from the lower of the two parts.
ModelOffsetOfParts(full) == <<0, -Min(rectBox.min[2], otherBox.min[2]), 0>>
\* setModelOffset(new Vector3(0, -minY, 0))
ModelOffset(full) == <<0, -full.min[2], 0>>

\* An offset that lines the rectangular part up with the other part's left edge.
RectangularPartOffsetOverlapping(rect, other) ==
    <<other.min[1] - rect.min[1], -((rect.max[2] - rect.min[2]) \div 6), 0>>
\* setRectangularPartOffset(new Vector3(horizontalOffset, verticalOffset, 0))
RectangularPartOffset(rect, other) ==
    LET rectHeight       == rect.max[2] - rect.min[2]
        otherRightEdge   == other.max[1]
        rectLeftEdge     == rect.min[1]
        horizontalOffset == otherRightEdge - rectLeftEdge
        verticalOffset   == -(rectHeight \div 6)
    IN  <<horizontalOffset, verticalOffset, 0>>

\* A pivot in the frame before the ground offset.
RotationCenterBeforeGround(full, rect, other) ==
    LET offset == RectangularPartOffset(rect, other)
    IN  <<(rect.min[1] + rect.max[1]) \div 2 + offset[1],
          (rect.min[2] + rect.max[2]) \div 2 + offset[2],
          (rect.min[3] + rect.max[3]) \div 2>>
\* setRotationCenter(rectCenter)
RotationCenter(full, rect, other) ==
    LET offsetY == ModelOffset(full)[2]
        offset  == RectangularPartOffset(rect, other)
    IN  <<(rect.min[1] + rect.max[1]) \div 2 + offset[1],
          (rect.min[2] + rect.max[2]) \div 2 + offsetY + offset[2],
          (rect.min[3] + rect.max[3]) \div 2>>

\* The boxes a loaded model may have
FullBoxes ==
    {Box(<<-2 * UNIT, y, -UNIT>>, <<2 * UNIT, y + 3 * UNIT, UNIT>>) :
        y \in {-(3 * UNIT) \div 10, 0, (2 * UNIT) \div 10}}
RectBoxes ==
    {Box(<<x, y, -UNIT \div 2>>, <<x + UNIT, y + h, UNIT \div 2>>) :
        x \in {-(3 * UNIT) \div 2, 0, UNIT \div 2},
        y \in {-(3 * UNIT) \div 10, 0},
        h \in {(6 * UNIT) \div 10, (12 * UNIT) \div 10}}
OtherBoxes ==
    {Box(<<x - w, 0, -UNIT>>, <<x, 3 * UNIT, UNIT>>) :
        x \in {-UNIT \div 2, UNIT}, w \in {UNIT, 2 * UNIT}}

\* A clone that is null: the model has no url for the part
NoMesh == [min |-> <<>>, max |-> <<>>]
Absent(clone) == clone = NoMesh

\* An effect that resets what it has set when a clone is missing.
AlignmentEffectResetting(full, rect, other, previous) ==
    IF Absent(full) \/ Absent(rect) \/ Absent(other)
    THEN <<ZeroVector, ZeroVector, ZeroVector, ZeroVector>>
    ELSE <<ModelOffset(full), RectangularPartOffset(rect, other), ZeroVector,
           RotationCenter(full, rect, other)>>
\* The body of the effect: what it leaves in modelOffset, rectangularPartOffset,
\* otherPartOffset and rotationCenter, given what they held;
\* if (!fullClone || !rectangularClone || !otherClone) return
AlignmentEffect(full, rect, other, previous) ==
    IF Absent(full) \/ Absent(rect) \/ Absent(other)
    THEN previous
    ELSE <<ModelOffset(full), RectangularPartOffset(rect, other), ZeroVector,
           RotationCenter(full, rect, other)>>

\* The effect on [fullClone, rectangularClone, otherClone]
AlignParts ==
    /\ alignPending
    /\ LET set == AlignmentEffect(fullBox, rectBox, otherBox,
                                  <<modelOffset, rectangularPartOffset, otherPartOffset,
                                    rotationCenter>>)
       IN  /\ modelOffset' = set[1]
           /\ rectangularPartOffset' = set[2]
           /\ otherPartOffset' = set[3]
           /\ rotationCenter' = set[4]
    /\ alignPending' = FALSE
    /\ UNCHANGED <<fullBox, rectBox, otherBox, partialVisibility, outsideAlign>>

\* Other model files are loaded: the clones change, the offsets are those of the
\* last run of the effect until it runs again.
LoadModel ==
    /\ fullBox' \in FullBoxes
    /\ rectBox' \in RectBoxes
    /\ otherBox' \in OtherBoxes
    /\ <<fullBox', rectBox', otherBox'>> # <<fullBox, rectBox, otherBox>>
    /\ alignPending' = TRUE
    /\ UNCHANGED <<modelOffset, rectangularPartOffset, otherPartOffset, rotationCenter,
                   partialVisibility, outsideAlign>>

\* newVisibility of togglePartialVisibility(part)
NewVisibility(currentVisibility, part) ==
    CASE part = "rectangular" ->
            [currentVisibility EXCEPT !.rectangularParts = ~currentVisibility.rectangularParts]
      [] part = "other" ->
            [currentVisibility EXCEPT !.otherParts = ~currentVisibility.otherParts]
      [] part = "all" ->
            LET allVisible == currentVisibility.rectangularParts /\ currentVisibility.otherParts
            IN  [rectangularParts |-> ~allVisible, otherParts |-> ~allVisible]

\* A click on a visibility button of the panel: togglePartialVisibility(part); the
\* parent stores the new visibility and the model renders with it.
TogglePartialVisibility ==
    \E part \in {"rectangular", "other", "all"} :
        /\ partialVisibility' = NewVisibility(partialVisibility, part)
        /\ UNCHANGED <<fullBox, rectBox, otherBox, modelOffset, rectangularPartOffset,
                       otherPartOffset, rotationCenter, alignPending, outsideAlign>>

InitAlign ==
    /\ impl \in {"current", "legacy"}
    /\ app = [id |-> "model-1", position |-> InitialPosition("model-1"), selected |-> TRUE]
    /\ data = app
    /\ positionFresh = FALSE
    /\ emitted = <<>>
    /\ ModelIdle
    /\ PanelIdle
    /\ RotIdle
    /\ fullBox \in FullBoxes
    /\ rectBox \in RectBoxes
    /\ otherBox \in OtherBoxes
    /\ modelOffset = ZeroVector
    /\ rectangularPartOffset = ZeroVector
    /\ otherPartOffset = ZeroVector
    /\ rotationCenter = ZeroVector
    /\ alignPending = TRUE
    /\ partialVisibility = DefaultVisibility
    /\ CubeIdle
    /\ CacheIdle

NextAlign ==
    \/ AlignParts
    \/ LoadModel

SpecAlign == InitAlign /\ [][NextAlign]_vars

\* One loaded model, its alignment and the visibility buttons
NextVisibility ==
    \/ AlignParts
    \/ TogglePartialVisibility

SpecVisibility == InitAlign /\ [][NextVisibility]_vars

---------------------------------------------------------------------------
(* Properties of the alignment *)

\* A box moved by an offset
Moved(box, offset) ==
    Box(<<box.min[1] + offset[1], box.min[2] + offset[2], box.min[3] + offset[3]>>,
        <<box.max[1] + offset[1], box.max[2] + offset[2], box.max[3] + offset[3]>>)

\* C8: once the effect has run, the rectangular part's offset is
\* (otherBox.max.x - rectBox.min.x, -(rectBox.max.y - rectBox.min.y) / 6, 0), the
\* other part's offset is (0, 0, 0), and the moved rectangular part's min.x equals
\* the other part's max.x.
C8_EdgeToEdge ==
    ~alignPending =>
        /\ rectangularPartOffset[1] = otherBox.max[1] - rectBox.min[1]
        /\ 6 * rectangularPartOffset[2] = -(rectBox.max[2] - rectBox.min[2])
        /\ rectangularPartOffset[3] = 0
        /\ otherPartOffset = ZeroVector
        /\ Moved(rectBox, rectangularPartOffset).min[1]
               = Moved(otherBox, otherPartOffset).max[1]

\* The effect has run on parts that a reload had left apart, and has moved the
\* rectangular part right and down.
C8_Witness ==
    /\ ~alignPending
    /\ rectBox.min[1] < otherBox.max[1]
    /\ rectangularPartOffset[1] > 0
    /\ rectangularPartOffset[2] = -(2 * UNIT) \div 10
    /\ fullBox.min[2] # 0

\* The box a part is rendered in, in the frame the pivot is given in: the part's own
\* offset inside the group of the ground offset
RenderedBox(box, partOffset) ==
    Moved(box, <<partOffset[1], modelOffset[2] + partOffset[2], partOffset[3]>>)

\* The boxes of the parts that are rendered
VisibleBoxes ==
    (IF partialVisibility.rectangularParts
     THEN {RenderedBox(rectBox, rectangularPartOffset)} ELSE {})
        \cup (IF partialVisibility.otherParts
              THEN {RenderedBox(otherBox, otherPartOffset)} ELSE {})

\* The point lies in the smallest box that holds all the boxes, of which there is one
\* at least.
InUnionBox(point, boxes) ==
    /\ boxes # {}
    /\ \A i \in 1..3 :
          /\ \E b \in boxes : b.min[i] <= point[i]
          /\ \E b \in boxes : point[i] <= b.max[i]

\* C18: once the alignment has run on the loaded parts, the rotation pivot lies within
\* the union bounding volume of the parts that are visible, whichever of the two
\* parts the visibility toggles have hidden.
C18_PivotInsideVisibleParts == ~alignPending => InUnionBox(rotationCenter, VisibleBoxes)

\* C24: once the effect has run, the ground offset is (0, -fullBox.min.y, 0), a
\* function of the full reference box alone, and the full reference box moved by it
\* has its lowest point at y = 0.
C24_GroundOffsetFromFullBox ==
    ~alignPending =>
        /\ modelOffset = <<0, -fullBox.min[2], 0>>
        /\ Moved(fullBox, modelOffset).min[2] = 0

\* The effect has run on a full model that reaches below the ground while neither part
\* does, and has lifted it.
C24_Witness ==
    /\ ~alignPending
    /\ fullBox.min[2] < 0
    /\ rectBox.min[2] = 0
    /\ otherBox.min[2] = 0
    /\ modelOffset[2] > 0

\* The centre of a box
Center(box) ==
    <<(box.min[1] + box.max[1]) \div 2, (box.min[2] + box.max[2]) \div 2,
      (box.min[3] + box.max[3]) \div 2>>

\* The position of the group that the X and Z rotations turn about:
\* <group position={[rotationCenter.x, rotationCenter.y, rotationCenter.z]}>
PivotGroupPosition == <<rotationCenter[1], rotationCenter[2], rotationCenter[3]>>

\* C25: the stored pivot is the centre of the rectangular part's box with the
\* horizontal offset and the vertical nudge added and without the ground offset; the
\* pivot the render turns about is the stored one with the ground offset added.
C25_PivotStoredBeforeGroundOffset ==
    ~alignPending =>
        /\ rotationCenter = Add(Center(rectBox), rectangularPartOffset)
        /\ PivotGroupPosition = Add(rotationCenter, modelOffset)

\* C25 as amended: the stored pivot is the centre of the rectangular part's box with
\* the horizontal offset, the vertical nudge and the ground offset added; the render
\* turns about the stored pivot as it is, which is the centre of the rectangular part
\* where it is rendered.
C25_PivotStoredWithGroundOffset ==
    ~alignPending =>
        /\ rotationCenter = Add(Add(Center(rectBox), rectangularPartOffset), modelOffset)
        /\ PivotGroupPosition = rotationCenter
        /\ PivotGroupPosition = Center(RenderedBox(rectBox, rectangularPartOffset))

\* The effect has run on a model whose ground offset is not zero, and the stored pivot
\* holds it.
C25_Witness ==
    /\ ~alignPending
    /\ modelOffset[2] # 0
    /\ rotationCenter[2] = Center(rectBox)[2] + rectangularPartOffset[2] + modelOffset[2]
    /\ rotationCenter[2] # Center(rectBox)[2] + rectangularPartOffset[2]

---------------------------------------------------------------------------
(* The view cube: ViewCubeContent of components/ViewCube.tsx *)

\* The browser calls the callbacks requested with requestAnimationFrame once per
\* animation frame, oldest first; pointer events and clicks come between two frames.
\* The render loop of the cube's canvas is the oldest callback: it was requested at
\* mount.  The orbit controls are those of three-stdlib: update() leaves the camera where
\* it is and makes it look at the target, so the camera never rolls and its orientation
\* is told by the direction it looks in.  mainCamera.matrix is taken to be up to date.
\* The delta of a drag's last event is any of the deltas: the gesture library decides it.

\* The labels handleFaceClick knows.  In the source they are '前' (front), '后' (back),
\* '右' (right), '左' (left), '顶' (top), '底' (bottom), the edges '右前', '左前', '右后',
\* '左后' and the corners '右前顶', '左前顶', '右后顶', '左后顶'.
faces == {"front", "back", "right", "left", "top", "bottom"}
Edges == {"right-front", "left-front", "right-back", "left-back"}
Corners == {"right-front-top", "left-front-top", "right-back-top", "left-back-top"}
Labels == faces \cup Edges \cup Corners

\* const rotationSpeed = 0.01: radians per pixel
rotationSpeed == DIR_UNIT \div 100
\* const dampingFactor = 0.92, in hundredths
dampingFactor == 92
\* const minVelocity = 0.05 pixels
minVelocity == (5 * VEL_UNIT) \div 100
\* Math.abs(lastDelta.x) > 0.5 || Math.abs(lastDelta.y) > 0.5
INERTIA_MIN == VEL_UNIT \div 2
\* const duration = 400 milliseconds
duration == 400
\* const distance = currentDistance > 1 ? currentDistance : 12
DEFAULT_DISTANCE == 12 * CAM_UNIT
\* const target = new THREE.Vector3(0, 0.5, 0)
NavTarget == <<0, CAM_UNIT \div 2, 0>>

\* The angle of a drag of v velocity quanta
Angle(v) == (v * rotationSpeed) \div VEL_UNIT

\* controls.update() of the orbit controls: the camera stays where it is and looks at
\* the target
ControlsUpdate(position, target) == LookAt(position, target)

\* A rotation that leaves the camera one unit from the target: the new direction is not
\* multiplied by the distance.
RotateCameraToUnitDistance(position, quaternion, target, dx, dy) ==
    LET cameraRight == CameraRight(quaternion)
        yRotated == RotateY(WorldDirection(quaternion), Angle(dx))
        newDirection == Normalize(RotateAbout(cameraRight, yRotated, Angle(dy)))
        newPosition == Sub(target, Scaled(newDirection, CAM_UNIT, DIR_UNIT))
    IN  [position |-> newPosition, quaternion |-> ControlsUpdate(newPosition, target)]
\* The camera after the rotation that onDrag and the damping apply for a movement
\* (dx, dy): about the world's Y axis by dx, about the camera's right vector by dy, the
\* position moved to keep the distance to the target, then controls.update().
RotateCamera(position, quaternion, target, dx, dy) ==
    LET cameraRight == CameraRight(quaternion)
        yRotated == RotateY(WorldDirection(quaternion), Angle(dx))
        newDirection == Normalize(RotateAbout(cameraRight, yRotated, Angle(dy)))
        distance == DistanceTo(position, target)
        newPosition == Sub(target, Scaled(newDirection, distance, DIR_UNIT))
    IN  [position |-> newPosition, quaternion |-> ControlsUpdate(newPosition, target)]

\* A choice of face in which X wins its tie with Z.
ActiveFaceTiesToX(cameraToTarget) ==
    LET absX == Abs(cameraToTarget[1])
        absY == Abs(cameraToTarget[2])
        absZ == Abs(cameraToTarget[3])
    IN  IF absY > absX /\ absY > absZ
          THEN (IF cameraToTarget[2] > 0 THEN "top" ELSE "bottom")
        ELSE IF absX >= absZ
          THEN (IF cameraToTarget[1] > 0 THEN "right" ELSE "left")
        ELSE (IF cameraToTarget[3] > 0 THEN "front" ELSE "back")
\* newActiveFace of useFrame: the face of the dominant axis of the direction from the
\* camera to the target
ActiveFace(cameraToTarget) ==
    LET absX == Abs(cameraToTarget[1])
        absY == Abs(cameraToTarget[2])
        absZ == Abs(cameraToTarget[3])
    IN  IF absY > absX /\ absY > absZ
          THEN (IF cameraToTarget[2] > 0 THEN "top" ELSE "bottom")
        ELSE IF absX > absZ
          THEN (IF cameraToTarget[1] > 0 THEN "right" ELSE "left")
        ELSE (IF cameraToTarget[3] > 0 THEN "front" ELSE "back")

\* newPosition of handleFaceClick: the switch over faceName
NewPosition(faceName, distance) ==
    LET edge == (distance * 707) \div 1000
        corner == (distance * 577) \div 1000
        height == 5 * CAM_UNIT
    IN  CASE faceName = "front" -> <<0, height, distance>>
          [] faceName = "back" -> <<0, height, -distance>>
          [] faceName = "right" -> <<distance, height, 0>>
          [] faceName = "left" -> <<-distance, height, 0>>
          [] faceName = "top" -> <<0, distance, 0>>
          [] faceName = "bottom" -> <<0, -distance, 0>>
          [] faceName = "right-front" -> <<edge, height, edge>>
          [] faceName = "left-front" -> <<-edge, height, edge>>
          [] faceName = "right-back" -> <<edge, height, -edge>>
          [] faceName = "left-back" -> <<-edge, height, -edge>>
          [] faceName = "right-front-top" -> <<corner, corner, corner>>
          [] faceName = "left-front-top" -> <<-corner, corner, corner>>
          [] faceName = "right-back-top" -> <<corner, corner, -corner>>
          [] faceName = "left-back-top" -> <<-corner, corner, -corner>>

\* The animate closure of handleFaceClick
NavCallback(faceName, distance, startPos, elapsed) ==
    [kind |-> "nav", faceName |-> faceName, distance |-> distance, startPos |-> startPos,
     newPosition |-> NewPosition(faceName, distance), elapsed |-> elapsed]

\* eased = 1 - Math.pow(1 - progress, 3), progress = Math.min(elapsed / duration, 1),
\* in thousandths
Eased(elapsed) ==
    LET progress == Min((elapsed * 1000) \div duration, 1000)
        rest == 1000 - progress
    IN  1000 - Round(rest * rest * rest, 1000 * 1000)

\* Vector3.lerpVectors(startPos, newPosition, eased)
LerpVectors(startPos, newPosition, eased) ==
    Add(startPos, Scaled(Sub(newPosition, startPos), eased, 1000))

\* cancelAnimationFrame(animationRef.current)
WithoutDamping(queue) == SelectSeq(queue, LAMBDA c : c.kind # "damping")

\* The view cube's state as one record
CubeState ==
    [controlsMounted |-> controlsMounted, cameraPosition |-> cameraPosition,
     cameraQuaternion |-> cameraQuaternion, controlsTarget |-> controlsTarget,
     cubeQuaternion |-> cubeQuaternion, activeFace |-> activeFace,
     faceWritten |-> FALSE, clickedFace |-> clickedFace, isDragging |-> isDragging,
     dragStateRef |-> dragStateRef,
     animationRef |-> animationRef, cubeRafQueue |-> cubeRafQueue]

\* useFrame; setActiveFace is called if (newActiveFace !== activeFace)
UseFrame(s) ==
    IF s.controlsMounted /\ ~s.dragStateRef.isDragging
    THEN LET newActiveFace ==
                 ActiveFace(Normalize(Sub(s.controlsTarget, s.cameraPosition)))
         IN  IF newActiveFace # s.activeFace
             THEN [s EXCEPT !.cubeQuaternion = Invert(s.cameraQuaternion),
                            !.activeFace = newActiveFace,
                            !.faceWritten = TRUE]
             ELSE [s EXCEPT !.cubeQuaternion = Invert(s.cameraQuaternion)]
    ELSE s

\* A drag start that leaves a running damping alone.
CubeOnDragStartKeepsDamping(s) ==
    [s EXCEPT !.isDragging = TRUE, !.dragStateRef = [@ EXCEPT !.isDragging = TRUE]]
\* onDragStart of the cube
CubeOnDragStart(s) ==
    [s EXCEPT !.isDragging = TRUE,
              !.dragStateRef = [@ EXCEPT !.isDragging = TRUE, !.dampingActive = FALSE,
                                         !.velocity = <<0, 0>>],
              !.cubeRafQueue = IF s.animationRef THEN WithoutDamping(@) ELSE @,
              !.animationRef = FALSE]

\* onDrag of the cube, delta in pixels
CubeOnDrag(s, delta) ==
    IF ~s.controlsMounted THEN s
    ELSE LET dx == delta[1] * VEL_UNIT
             dy == delta[2] * VEL_UNIT
             cam == RotateCamera(s.cameraPosition, s.cameraQuaternion,
                                 s.controlsTarget, dx, dy)
         IN  [s EXCEPT !.dragStateRef = [@ EXCEPT !.lastDelta = <<dx, dy>>],
                       !.cameraPosition = cam.position,
                       !.cameraQuaternion = cam.quaternion,
                       !.cubeQuaternion = Invert(cam.quaternion)]

\* startInertialDamping: the first requestAnimationFrame(animate)
StartInertialDamping(s) ==
    IF ~s.controlsMounted THEN s
    ELSE [s EXCEPT !.animationRef = TRUE,
                   !.cubeRafQueue = Append(@, DampingCallback)]

\* onDragEnd of the cube
CubeOnDragEnd(s) ==
    LET lastDelta == s.dragStateRef.lastDelta
        ended == [s EXCEPT !.isDragging = FALSE,
                           !.dragStateRef = [@ EXCEPT !.isDragging = FALSE]]
    IN  IF Abs(lastDelta[1]) > INERTIA_MIN \/ Abs(lastDelta[2]) > INERTIA_MIN
        THEN StartInertialDamping(
                 [ended EXCEPT !.dragStateRef = [@ EXCEPT !.velocity = lastDelta,
                                                          !.dampingActive = TRUE]])
        ELSE ended

\* A velocity that does not decay.
MultiplyScalarOne(velocity) == velocity
\* velocity.multiplyScalar(dampingFactor)
MultiplyScalar(velocity) ==
    <<Round(velocity[1] * dampingFactor, 100), Round(velocity[2] * dampingFactor, 100)>>

\* animate of startInertialDamping
DampingAnimate(s) ==
    LET rest == s
        velocity == MultiplyScalar(s.dragStateRef.velocity)
        cam == RotateCamera(s.cameraPosition, s.cameraQuaternion, s.controlsTarget,
                            velocity[1], velocity[2])
    IN  IF ~s.dragStateRef.dampingActive THEN rest
        ELSE IF Abs(velocity[1]) < minVelocity /\ Abs(velocity[2]) < minVelocity
        THEN [rest EXCEPT !.dragStateRef = [@ EXCEPT !.dampingActive = FALSE,
                                                     !.velocity = <<0, 0>>]]
        ELSE [rest EXCEPT !.dragStateRef = [@ EXCEPT !.velocity = velocity],
                          !.cameraPosition = cam.position,
                          !.cameraQuaternion = cam.quaternion,
                          !.cubeQuaternion = Invert(cam.quaternion),
                          !.animationRef = TRUE,
                          !.cubeRafQueue = Append(@, DampingCallback)]

\* animate of handleFaceClick for the closure c: the camera is written, the cube is not
NavAnimate(s, c) ==
    LET position == LerpVectors(c.startPos, c.newPosition, Eased(c.elapsed))
        written == [s EXCEPT !.cameraPosition = position,
                             !.controlsTarget = NavTarget,
                             !.cameraQuaternion = ControlsUpdate(position, NavTarget)]
    IN  IF c.elapsed < duration
        THEN [written EXCEPT !.cubeRafQueue = Append(@, c)]
        ELSE written

\* handleFaceClick, with its first animate()
HandleFaceClick(s, faceName) ==
    IF ~s.controlsMounted THEN s
    ELSE LET currentDistance == DistanceTo(s.cameraPosition, s.controlsTarget)
             distance == IF currentDistance > CAM_UNIT THEN currentDistance
                         ELSE DEFAULT_DISTANCE
         IN  NavAnimate(s, NavCallback(faceName, distance, s.cameraPosition, 0))

\* Bounds of the behaviours explored, the deltas of the drag events in pixels and the
\* milliseconds between two animation frames
MaxClicks == 1
MaxCubeDrags == 1
MaxCubeMoves == 1
Deltas == {<<0, 0>>, <<1, 1>>}
FrameMs == {200}

CommitCube(s, frame, gesture, click, drag, move) ==
    /\ controlsMounted' = s.controlsMounted
    /\ cameraPosition' = s.cameraPosition
    /\ cameraQuaternion' = s.cameraQuaternion
    /\ controlsTarget' = s.controlsTarget
    /\ cubeQuaternion' = s.cubeQuaternion
    /\ activeFace' = s.activeFace
    /\ faceWritten' = s.faceWritten
    /\ clickedFace' = s.clickedFace
    /\ isDragging' = s.isDragging
    /\ dragStateRef' = s.dragStateRef
    /\ animationRef' = s.animationRef
    /\ cubeRafQueue' = s.cubeRafQueue
    /\ cubeFrame' = frame
    /\ cubeGesture' = gesture
    /\ clicks' = clicks + click
    /\ cubeDrags' = cubeDrags + drag
    /\ cubeMoves' = cubeMoves + move
    /\ UNCHANGED outsideCube

\* The parent's orbit controls mount: mainCameraControlsRef.current is set
MountControls ==
    /\ cubeFrame = <<>>
    /\ ~controlsMounted
    /\ CommitCube([CubeState EXCEPT !.controlsMounted = TRUE], cubeFrame, cubeGesture, 0, 0, 0)

\* The first event of a drag: onDragStart, then onDrag
CubeDragFirst ==
    /\ cubeFrame = <<>>
    /\ ~cubeGesture
    /\ cubeDrags < MaxCubeDrags
    /\ \E delta \in Deltas :
          CommitCube(CubeOnDrag(CubeOnDragStart(CubeState), delta), cubeFrame, TRUE, 0, 1, 0)

\* A later event of a drag: onDrag
CubeDragMove ==
    /\ cubeFrame = <<>>
    /\ cubeGesture
    /\ cubeMoves < MaxCubeMoves
    /\ \E delta \in Deltas :
          CommitCube(CubeOnDrag(CubeState, delta), cubeFrame, TRUE, 0, 0, 1)

\* The last event of a drag: onDrag, then onDragEnd
CubeDragLast ==
    /\ cubeFrame = <<>>
    /\ cubeGesture
    /\ \E delta \in Deltas :
          CommitCube(CubeOnDragEnd(CubeOnDrag(CubeState, delta)), cubeFrame, FALSE, 0, 0, 0)

\* handleFaceClick(faceName) on the widget's state; a call that begins a navigation is
\* the last navigation begun
ClickOn(faceName) ==
    [HandleFaceClick(CubeState, faceName)
        EXCEPT !.clickedFace = IF controlsMounted THEN faceName ELSE @]

\* A click on one of the six face meshes
FaceClick ==
    /\ cubeFrame = <<>>
    /\ clicks < MaxClicks
    /\ \E faceName \in faces :
          CommitCube(ClickOn(faceName), cubeFrame, cubeGesture, 1, 0, 0)

\* The browser starts an animation frame: it will call the callbacks requested so far,
\* oldest first, and for every running navigation Date.now() is dt later
BeginFrame ==
    /\ cubeFrame = <<>>
    /\ \E dt \in FrameMs :
          CommitCube([CubeState EXCEPT !.cubeRafQueue = <<>>],
                     [i \in 1..Len(cubeRafQueue) |->
                         IF cubeRafQueue[i].kind = "nav"
                         THEN [cubeRafQueue[i] EXCEPT !.elapsed = Min(@ + dt, duration)]
                         ELSE cubeRafQueue[i]],
                     cubeGesture, 0, 0, 0)

\* The frame calls the render loop of the cube's canvas: the loop requests its next
\* frame and calls useFrame
FrameTick ==
    /\ cubeFrame # <<>>
    /\ Head(cubeFrame).kind = "frame"
    /\ CommitCube(UseFrame([CubeState EXCEPT !.cubeRafQueue = Append(@, FrameCallback)]),
                  Tail(cubeFrame), cubeGesture, 0, 0, 0)

\* The frame calls the damping's animate
DampingFrame ==
    /\ cubeFrame # <<>>
    /\ Head(cubeFrame).kind = "damping"
    /\ CommitCube(DampingAnimate(CubeState), Tail(cubeFrame), cubeGesture, 0, 0, 0)

\* The frame calls a navigation's animate
NavFrame ==
    /\ cubeFrame # <<>>
    /\ Head(cubeFrame).kind = "nav"
    /\ CommitCube(NavAnimate(CubeState, Head(cubeFrame)), Tail(cubeFrame),
                  cubeGesture, 0, 0, 0)

InitCube ==
    /\ impl = "current"
    /\ app = [id |-> "model-1", position |-> InitialPosition("model-1"), selected |-> FALSE]
    /\ data = app
    /\ positionFresh = FALSE
    /\ emitted = <<>>
    /\ ModelIdle
    /\ PanelIdle
    /\ RotIdle
    /\ AlignIdle
    /\ \E target \in {<<0, 0, 0>>, NavTarget} : CubeAtMount(target)
    /\ CacheIdle

NextCube ==
    \/ MountControls
    \/ CubeDragFirst
    \/ CubeDragMove
    \/ CubeDragLast
    \/ FaceClick
    \/ BeginFrame
    \/ FrameTick
    \/ DampingFrame
    \/ NavFrame

SpecCube == InitCube /\ [][NextCube]_vars

---------------------------------------------------------------------------
(* Properties of the view cube *)

\* cube * camera = identity
CubeSynced == cubeQuaternion = Invert(cameraQuaternion)

\* C9: with the controls mounted, a cube that is the inverse of the main camera is still
\* its inverse after every step that leaves the cube not mid-drag: a step of the
\* damping, of a navigation, a frame tick, a click, the end of a drag.
C9_CubeInverseOfCamera ==
    [][(controlsMounted /\ CubeSynced /\ ~dragStateRef'.isDragging) => CubeSynced']_vars

\* The unit direction of a label: the sum of the axes it names
LabelDirection(faceName) ==
    LET x == IF faceName \in {"right", "right-front", "right-back", "right-front-top",
                              "right-back-top"} THEN 1
             ELSE IF faceName \in {"left", "left-front", "left-back", "left-front-top",
                                   "left-back-top"} THEN -1
             ELSE 0
        y == IF faceName \in Corners \cup {"top"} THEN 1
             ELSE IF faceName = "bottom" THEN -1
             ELSE 0
        z == IF faceName \in {"front", "right-front", "left-front", "right-front-top",
                              "left-front-top"} THEN 1
             ELSE IF faceName \in {"back", "right-back", "left-back", "right-back-top",
                                   "left-back-top"} THEN -1
             ELSE 0
    IN  Normalize(<<x * DIR_UNIT, y * DIR_UNIT, z * DIR_UNIT>>)

\* target + d * u for a navigation's label and distance
NavEnd(c) == Add(NavTarget, Scaled(LabelDirection(c.faceName), c.distance, DIR_UNIT))

\* Two positions are within a tenth of a world unit of each other, axis by axis
Near(a, b) == \A i \in 1..3 : Abs(a[i] - b[i]) <= CAM_UNIT \div 10

\* The step is the last call of a navigation's animate: progress is 1
NavCompletes ==
    /\ cubeFrame # <<>>
    /\ Head(cubeFrame).kind = "nav"
    /\ Head(cubeFrame).elapsed = duration
    /\ cubeFrame' = Tail(cubeFrame)

\* C10: when a navigation completes, the camera is at target + d * u, u the unit
\* direction of the clicked label and d the navigation's distance, and looks at the
\* target (0, 0.5, 0).
C10_NavEndsAtLabelDirection ==
    [][NavCompletes =>
          /\ Near(cameraPosition', NavEnd(Head(cubeFrame)))
          /\ cameraQuaternion' = LookAt(cameraPosition', NavTarget)]_vars

\* The damping's animate is among the callbacks of a queue
DampingPending(queue) == \E i \in 1..Len(queue) : queue[i].kind = "damping"

\* The step is a tick of a running damping
DampingTick ==
    /\ cubeFrame # <<>>
    /\ Head(cubeFrame).kind = "damping"
    /\ dragStateRef.dampingActive

\* C11: a tick of the damping multiplies the velocity by 0.92; at the first tick where
\* both components are then below 0.05 it leaves dampingActive false, the velocity
\* (0, 0) and no callback requested; otherwise the velocity is strictly smaller than
\* before and the next tick is requested: the velocity is a whole number of quanta
\* that every tick makes smaller, which bounds the number of ticks.
C11_DampingDecaysAndStops ==
    [][DampingTick =>
            LET vx == Round(dragStateRef.velocity[1] * 92, 100)
                vy == Round(dragStateRef.velocity[2] * 92, 100)
            IN  IF 20 * Abs(vx) < VEL_UNIT /\ 20 * Abs(vy) < VEL_UNIT
                THEN /\ ~dragStateRef'.dampingActive
                     /\ dragStateRef'.velocity = <<0, 0>>
                     /\ ~DampingPending(cubeRafQueue')
                     /\ ~DampingPending(cubeFrame')
                ELSE /\ dragStateRef'.dampingActive
                     /\ dragStateRef'.velocity = <<vx, vy>>
                     /\ Abs(vx) + Abs(vy)
                          < Abs(dragStateRef.velocity[1]) + Abs(dragStateRef.velocity[2])
                     /\ DampingPending(cubeRafQueue')]_vars

\* A damping has run to its end after a release
C11_Witness ==
    /\ animationRef
    /\ ~dragStateRef.isDragging
    /\ ~dragStateRef.dampingActive
    /\ dragStateRef.velocity = <<0, 0>>
    /\ Abs(dragStateRef.lastDelta[1]) > INERTIA_MIN
    /\ ~DampingPending(cubeRafQueue)
    /\ ~DampingPending(cubeFrame)

\* The widget state of the view cube: isDragging (the React state and the ref's
\* field), dampingActive, the velocity, the active face and the cube's orientation
CubeWidgetState ==
    <<isDragging, dragStateRef.isDragging, dragStateRef.dampingActive,
      dragStateRef.velocity, activeFace, cubeQuaternion>>

\* The main camera as the controls hold it
MainCamera == <<cameraPosition, cameraQuaternion, controlsTarget>>

\* C13: while the main camera control reference is null, no operation of the view cube
\* (frame sync, drag start, move and end, damping, a click) changes the camera or the
\* widget state.
C13_NoOpWithoutControls ==
    [][(~controlsMounted /\ ~controlsMounted') =>
            (MainCamera' = MainCamera /\ CubeWidgetState' = CubeWidgetState)]_vars

---------------------------------------------------------------------------
(* A press on the cube during the inertial damping *)

MaxRedrags == 1

\* The first event of a drag that begins while the damping of the last release is
\* running: onDragStart, then onDrag
CubeDragDuringDamping ==
    /\ cubeFrame = <<>>
    /\ ~cubeGesture
    /\ dragStateRef.dampingActive
    /\ cubeDrags < MaxCubeDrags + MaxRedrags
    /\ \E delta \in Deltas :
          CommitCube(CubeOnDrag(CubeOnDragStart(CubeState), delta), cubeFrame, TRUE, 0, 1, 0)

NextRedrag ==
    \/ MountControls
    \/ CubeDragFirst
    \/ CubeDragMove
    \/ CubeDragLast
    \/ CubeDragDuringDamping
    \/ BeginFrame
    \/ FrameTick
    \/ DampingFrame

SpecRedrag == InitCube /\ [][NextRedrag]_vars

\* C16: from the first event of a drag of the cube until its release the damping is
\* off: dampingActive is false, the velocity is (0, 0), no damping callback is pending
\* in an animation frame, so none rotates the camera.
C16_DragCancelsDamping ==
    cubeGesture =>
        /\ ~dragStateRef.dampingActive
        /\ dragStateRef.velocity = <<0, 0>>
        /\ ~animationRef
        /\ ~DampingPending(cubeRafQueue)
        /\ ~DampingPending(cubeFrame)

\* A drag that began during a damping run is in progress.
C16_Witness ==
    /\ cubeGesture
    /\ cubeDrags > MaxCubeDrags
    /\ controlsMounted
    /\ dragStateRef.isDragging

\* The step runs onDrag of the cube with the controls mounted: the first event of a
\* drag, a later one or the last
CubeDragEvent ==
    /\ controlsMounted
    /\ cubeFrame = <<>>
    /\ \/ cubeDrags' # cubeDrags
       \/ cubeMoves' # cubeMoves
       \/ cubeGesture /\ ~cubeGesture'

\* The step is a tick of the damping that rotates the camera: not the tick that stops
RotatingDampingTick == DampingTick /\ dragStateRef'.dampingActive

\* The square of the distance from the camera to the controls' target
SquaredCameraDistance ==
    Dot(Sub(cameraPosition, controlsTarget), Sub(cameraPosition, controlsTarget))

\* C28: every event of a drag of the cube and every tick of the damping that rotates
\* the camera leaves the camera as far from the controls' target as it was (the
\* square of the distance to one part in two thousand, the rounding of the new
\* direction), leaves the target where it was, and leaves the cube the inverse of
\* the camera's orientation as that same callback left it.
C28_RotationKeepsDistanceAndSyncs ==
    [][(CubeDragEvent \/ RotatingDampingTick) =>
            /\ Abs(SquaredCameraDistance' - SquaredCameraDistance)
                  <= SquaredCameraDistance \div 2000
            /\ controlsTarget' = controlsTarget
            /\ cubeQuaternion' = Invert(cameraQuaternion')]_vars

\* A damping has rotated the camera after a drag that rotated it.
C28_Witness ==
    /\ dragStateRef.dampingActive
    /\ dragStateRef.velocity # dragStateRef.lastDelta
    /\ cubeMoves = MaxCubeMoves
    /\ cameraPosition # INITIAL_CAMERA_POSITION
    /\ cubeQuaternion = Invert(cameraQuaternion)
    /\ cubeQuaternion # Identity

---------------------------------------------------------------------------
(* The active face for a camera anywhere about its target *)

\* Where the main camera is when the cube mounts: the points of a grid about the
\* target, some with two or three coordinates of the same magnitude
FacePositions ==
    {<<x * CAM_UNIT, y * CAM_UNIT, z * CAM_UNIT>> : x, y, z \in {-6, -3, 0, 3, 6}}
        \ {<<0, 0, 0>>}

InitFace ==
    /\ impl = "current"
    /\ app = [id |-> "model-1", position |-> InitialPosition("model-1"), selected |-> FALSE]
    /\ data = app
    /\ positionFresh = FALSE
    /\ emitted = <<>>
    /\ ModelIdle
    /\ PanelIdle
    /\ RotIdle
    /\ AlignIdle
    /\ CacheIdle
    /\ \E position \in FacePositions :
          /\ controlsMounted = FALSE
          /\ cameraPosition = position
          /\ controlsTarget = <<0, 0, 0>>
          /\ cameraQuaternion = LookAt(cameraPosition, controlsTarget)
          /\ cubeQuaternion = Identity
          /\ activeFace = "front"
          /\ faceWritten = FALSE
          /\ clickedFace = ""
          /\ isDragging = FALSE
          /\ dragStateRef = [isDragging |-> FALSE, velocity |-> <<0, 0>>,
                             lastDelta |-> <<0, 0>>, dampingActive |-> FALSE]
          /\ animationRef = FALSE
          /\ cubeRafQueue = <<FrameCallback>>
          /\ cubeFrame = <<>>
          /\ cubeGesture = FALSE
          /\ clicks = 0
          /\ cubeDrags = 0
          /\ cubeMoves = 0

NextFace ==
    \/ MountControls
    \/ BeginFrame
    \/ FrameTick

SpecFace == InitFace /\ [][NextFace]_vars

\* The step is a frame tick that syncs the cube: the controls are mounted and the
\* cube is not dragged.
SyncingTick ==
    /\ cubeFrame # <<>>
    /\ Head(cubeFrame).kind = "frame"
    /\ cubeFrame' = Tail(cubeFrame)
    /\ controlsMounted
    /\ ~dragStateRef.isDragging

\* The direction from the camera to the target, and the magnitudes of its components
CameraToTarget == Normalize(Sub(controlsTarget, cameraPosition))
AbsOf(axis) == Abs(CameraToTarget[axis])

\* The face is the one of the axis and the sign of the component.
FaceOfAxis(face, axis) ==
    CASE axis = 1 -> face = (IF CameraToTarget[1] > 0 THEN "right" ELSE "left")
      [] axis = 2 -> face = (IF CameraToTarget[2] > 0 THEN "top" ELSE "bottom")
      [] axis = 3 -> face = (IF CameraToTarget[3] > 0 THEN "front" ELSE "back")

\* C27: a syncing tick leaves as the active face the face of the dominant axis of the
\* direction from the camera to the target and of its sign: Y when |y| is greater than
\* both |x| and |z|, else X when |x| is greater than |z|, else Z; and it writes the
\* face exactly when that face is not the one it found.
C27_ActiveFaceOfDominantAxis ==
    [][SyncingTick =>
          /\ (AbsOf(2) > AbsOf(1) /\ AbsOf(2) > AbsOf(3)) => FaceOfAxis(activeFace', 2)
          /\ (~(AbsOf(2) > AbsOf(1) /\ AbsOf(2) > AbsOf(3)) /\ AbsOf(1) > AbsOf(3))
                 => FaceOfAxis(activeFace', 1)
          /\ (~(AbsOf(2) > AbsOf(1) /\ AbsOf(2) > AbsOf(3)) /\ AbsOf(1) <= AbsOf(3))
                 => FaceOfAxis(activeFace', 3)
          /\ faceWritten' <=> (activeFace' # activeFace)]_vars

\* A camera as far along X as along Z, and less far along Y, has had its face synced to
\* the back face, and a later tick has found the face right and written nothing.
C27_Witness ==
    /\ controlsMounted
    /\ AbsOf(1) = AbsOf(3)
    /\ AbsOf(2) < AbsOf(1)
    /\ CameraToTarget[3] < 0
    /\ activeFace = "back"
    /\ ~faceWritten
    /\ cubeQuaternion = Invert(cameraQuaternion)
    /\ cubeFrame = <<>>

---------------------------------------------------------------------------
(* Drags of the cube while the parent's orbit controls mount and unmount. *)

\* The parent's orbit controls unmount: React sets mainCameraControlsRef.current to
\* null; the callbacks already requested keep the controls they closed over
UnmountControls ==
    /\ cubeFrame = <<>>
    /\ controlsMounted
    /\ CommitCube([CubeState EXCEPT !.controlsMounted = FALSE], cubeFrame, cubeGesture,
                  0, 0, 0)

NextRelease ==
    \/ MountControls
    \/ UnmountControls
    \/ CubeDragFirst
    \/ CubeDragMove
    \/ CubeDragLast
    \/ BeginFrame
    \/ FrameTick
    \/ DampingFrame

SpecRelease == InitCube /\ [][NextRelease]_vars

\* The drag flag and the damping flag are never true together
DragExcludesDamping == ~(dragStateRef.isDragging /\ dragStateRef.dampingActive)

\* While the damping flag is true the damping's animate is requested, or is among the
\* callbacks of the frame that is running
DampingNeverStuck ==
    dragStateRef.dampingActive =>
        (DampingPending(cubeRafQueue) \/ DampingPending(cubeFrame))

\* C37: isDragging and dampingActive are never both true, and whenever dampingActive
\* is true an animation frame of the damping is scheduled, also after a release that
\* finds mainCameraControlsRef.current null.
C37_FlagsExclusiveAndNeverStuck == DragExcludesDamping /\ DampingNeverStuck

---------------------------------------------------------------------------
(* Clicks on the faces of the cube, one after the other or while the      *)
(* navigation of the click before is running, and nothing else.           *)

MaxNavClicks == 2

\* A click on one of the six face meshes, the first or the second
NavClick ==
    /\ cubeFrame = <<>>
    /\ clicks < MaxNavClicks
    /\ \E faceName \in faces :
          CommitCube(ClickOn(faceName), cubeFrame, cubeGesture, 1, 0, 0)

NextNav ==
    \/ MountControls
    \/ NavClick
    \/ BeginFrame
    \/ FrameTick
    \/ NavFrame

SpecNav == InitCube /\ [][NextNav]_vars

\* An animate closure of handleFaceClick is among the callbacks of a queue
NavPending(queue) == \E i \in 1..Len(queue) : queue[i].kind = "nav"

\* The last navigation begun has completed, and no other is running
NavigationDone ==
    /\ clickedFace # ""
    /\ ~NavPending(cubeFrame)
    /\ ~NavPending(cubeRafQueue)

\* C33: once a navigation to a face has completed, a frame tick that syncs the cube
\* leaves as the active face the face that was clicked.
C33_ClickedFaceHighlighted ==
    [][(SyncingTick /\ NavigationDone) => activeFace' = clickedFace]_vars

\* The step is a click on the face of the last navigation, after that has completed
RepeatedClick ==
    /\ NavigationDone
    /\ cubeFrame = <<>>
    /\ clicks' = clicks + 1
    /\ clickedFace' = clickedFace

\* C35: a click on the face whose navigation has completed begins a navigation that
\* ends where the camera is, and every navigation ends at the point it was begun for:
\* the second click leaves the camera's position and its distance to the target as
\* the first left them.
C35_NavigationIdempotent ==
    [][/\ RepeatedClick =>
              \A i \in 1..Len(cubeRafQueue') :
                  cubeRafQueue'[i].kind = "nav" =>
                      cubeRafQueue'[i].newPosition = cameraPosition
       /\ NavCompletes => cameraPosition' = Head(cubeFrame).newPosition]_vars

\* How many animate closures of handleFaceClick are among the callbacks of a queue
NavsIn(queue) == Cardinality({i \in 1..Len(queue) : queue[i].kind = "nav"})

\* The step is a call of a navigation's animate, which writes the camera
NavWrites ==
    /\ cubeFrame # <<>>
    /\ Head(cubeFrame).kind = "nav"
    /\ cubeFrame' = Tail(cubeFrame)

\* No navigation writes the camera while the cube is dragged or the damping runs
NoNavigationUnderDrag ==
    NavWrites => (~dragStateRef.isDragging /\ ~dragStateRef.dampingActive)

\* The first event of a drag and a click that begins a navigation leave no earlier
\* navigation running
StartStopsNavigation ==
    /\ (~cubeGesture /\ cubeGesture') => NavsIn(cubeRafQueue') = 0
    /\ (controlsMounted /\ clicks' = clicks + 1) => NavsIn(cubeRafQueue') <= 1

\* C34: no navigation writes the camera during a drag of the cube or a damping run;
\* the start of a drag and the start of a navigation stop the navigation in
\* progress; no two navigations ever run together.
C34_OneCameraWriter ==
    /\ [](NavsIn(cubeRafQueue) <= 1 /\ NavsIn(cubeFrame) <= 1)
    /\ [][NoNavigationUnderDrag /\ StartStopsNavigation]_vars

---------------------------------------------------------------------------
(* One move of a single-finger drag, for every orbit of the camera *)

\* Where the camera has been orbited to: the initial position and its quarter turns
\* about the Y axis, the view from the front at the same height and distance, and
\* the initial direction from half as far again.
OrbitPositions ==
    LET c == INITIAL_CAMERA_POSITION[1]
    IN  {<<sx * c, c, sz * c>> : sx \in {-1, 1}, sz \in {-1, 1}}
            \cup {<<0, c, Sqrt(2 * c * c)>>, <<(3 * c) \div 2, (3 * c) \div 2, (3 * c) \div 2>>}

\* Where the model stands in x and z when the drag begins, in tenths of a world unit
StartXs == {-30, -20, 0, 25, 30}
StartZs == {-30, 0, 10}

InitMove ==
    /\ impl \in {"current", "legacy"}
    /\ \E id \in ModelIds, z \in StartZs :
          \E x \in {(tenths * UNIT) \div 10 : tenths \in StartXs} \cup {InitialPosition(id)[1]} :
              app = [id |-> id, position |-> <<x, UNIT, (z * UNIT) \div 10>>,
                     selected |-> TRUE]
    /\ data = app
    /\ positionFresh = FALSE
    /\ emitted = <<>>
    /\ ModelIdle
    /\ PanelIdle
    /\ RotIdle
    /\ AlignIdle
    /\ CacheIdle
    /\ \E position \in OrbitPositions :
          /\ controlsMounted = TRUE
          /\ cameraPosition = position
          /\ controlsTarget = <<0, 0, 0>>
          /\ cameraQuaternion = LookAt(position, controlsTarget)
          /\ cubeQuaternion = Invert(cameraQuaternion)
          /\ activeFace = ActiveFace(Normalize(Sub(controlsTarget, cameraPosition)))
          /\ faceWritten = FALSE
          /\ clickedFace = ""
          /\ isDragging = FALSE
          /\ dragStateRef = [isDragging |-> FALSE, velocity |-> <<0, 0>>,
                             lastDelta |-> <<0, 0>>, dampingActive |-> FALSE]
          /\ animationRef = FALSE
          /\ cubeRafQueue = <<FrameCallback>>
          /\ cubeFrame = <<>>
          /\ cubeGesture = FALSE
          /\ clicks = 0
          /\ cubeDrags = 0
          /\ cubeMoves = 0

\* The finger goes down on the model at the pointer (0, 0): the gesture's first event
MoveStart ==
    /\ ~gestureActive
    /\ lastEvent = NoEvent
    /\ LET s0 == [DragState EXCEPT !.memo = <<>>]
           s1 == OnDragStart(s0, 1)
           s2 == OnDrag(s1, <<0, 0>>, 1, TRUE)
       IN  Commit(s2, [touches |-> 1, xy |-> <<0, 0>>], TRUE)

\* The finger moves 100 px to the right: the gesture's second event
MoveRight ==
    /\ gestureActive
    /\ lastEvent.xy = <<0, 0>>
    /\ LET s1 == OnDrag(DragState, <<100, 0>>, 1, FALSE)
       IN  Commit(s1, [touches |-> 1, xy |-> <<100, 0>>], TRUE)

NextMove ==
    \/ MoveStart
    \/ MoveRight
    \/ FlushRaf
    \/ Render

SpecMove == InitMove /\ [][NextMove]_vars

\* The step in which the pointer has moved by (100, 0) px
MovedRight == gestureActive /\ lastEvent.xy = <<0, 0>> /\ lastEvent'.xy = <<100, 0>>

\* The camera is as far from its target as when the scene opens.
AtDefaultZoom ==
    DistanceTo(cameraPosition, controlsTarget) = Length(INITIAL_CAMERA_POSITION)

\* The position a move starts from: the latest one the handler has computed, which in
\* part_002 is the one the props held when the gesture began.
MoveBase == IF impl = "current" THEN positionRef ELSE memo[1]

\* World units per pixel of the handler in use
SpeedInUse == IF impl = "current" THEN moveSpeed ELSE moveSpeedLegacy

\* C19: at the default zoom a single-finger move by (100, 0) px hands to onUpdate the
\* model's position displaced by 100 * moveSpeed along the camera's right vector on
\* the ground, clamped to the boundary, so the direction follows the camera's orbit.
C19_MovesAlongCameraRight ==
    [][(MovedRight /\ AtDefaultZoom) =>
            LET right == Scaled(CameraRight(cameraQuaternion), SpeedInUse, 100)
            IN  NewDragOutputs = {<<Clamp(MoveBase[1] + right[1]),
                                    MoveBase[2],
                                    Clamp(MoveBase[3] + right[3])>>}]_vars

\* What 100 px come to in world units: 0.8 at 0.008 per pixel, 5 at 0.05 per pixel
WorldUnitsOf100Px == IF impl = "current" THEN (8 * UNIT) \div 10 ELSE 5 * UNIT

\* C19 as amended: a single-finger move by (100, 0) px hands to onUpdate the position
\* the move starts from displaced by 100 * moveSpeed (0.8 world units; 5 in part_002)
\* along the world's X axis, clamped to the boundary, with y and z kept, wherever the
\* camera is.
C19_MovesAlongWorldX ==
    [][MovedRight =>
            NewDragOutputs = {<<Clamp(MoveBase[1] + WorldUnitsOf100Px),
                                MoveBase[2],
                                MoveBase[3]>>}]_vars

\* A move by (100, 0) px has displaced the model by 0.8 world units along the world's X
\* axis, unclamped, under a camera whose right vector is not that axis.
C19_Witness ==
    /\ impl = "current"
    /\ lastEvent.xy = <<100, 0>>
    /\ Len(rafQueue) = 1
    /\ rafQueue[1] = <<app.position[1] + WorldUnitsOf100Px, app.position[2], app.position[3]>>
    /\ CameraRight(cameraQuaternion) # <<DIR_UNIT, 0, 0>>

---------------------------------------------------------------------------
(* The alignment while the model is moved, turned and reloaded.  The      *)
(* model's url and the urls of its parts change, and a part's url may be  *)
(* missing; meanwhile the user drags the model, clicks a height button    *)
(* and turns it, and the frames tick.  The frames tick on the rotation    *)
(* the model has: the easing toward a new one is the matter of the        *)
(* rotation specifications.                                                *)

\* The boxes of the files the urls name
ReloadFullBoxes ==
    {Box(<<-2 * UNIT, y, -UNIT>>, <<2 * UNIT, y + 3 * UNIT, UNIT>>) :
        y \in {-(3 * UNIT) \div 10, 0}}
ReloadRectBoxes ==
    {NoMesh, Box(<<0, 0, -UNIT \div 2>>, <<UNIT, (6 * UNIT) \div 10, UNIT \div 2>>)}
ReloadOtherBoxes == {Box(<<-UNIT, 0, -UNIT>>, <<UNIT, 3 * UNIT, UNIT>>)}

\* data.url, data.rectangularPartUrl or data.otherPartUrl changes: the clones are new,
\* a part without url is null, and the effect on the clones is due
LoadParts ==
    /\ fullBox' \in ReloadFullBoxes
    /\ rectBox' \in ReloadRectBoxes
    /\ otherBox' \in ReloadOtherBoxes
    /\ <<fullBox', rectBox', otherBox'>> # <<fullBox, rectBox, otherBox>>
    /\ alignPending' = TRUE
    /\ UNCHANGED <<modelOffset, rectangularPartOffset, otherPartOffset, rotationCenter,
                   partialVisibility, outsideAlign>>

\* A click on a height button: the pointer goes down and up on it
HeightClick ==
    \E direction \in Directions :
        /\ pressed = "none"
        /\ CommitPanel(AdjustHeightCurrent(StopLongPress(StartLongPress(PanelState, direction,
                                                                        now)),
                                           direction),
                       now, "none")

InitReload ==
    /\ impl = "current"
    /\ app = [id |-> "model-1", position |-> <<0, 0, 0>>, selected |-> TRUE]
    /\ data = app
    /\ positionFresh = FALSE
    /\ emitted = <<>>
    /\ ModelIdle
    /\ PanelIdle
    /\ RotIdle
    /\ fullBox \in ReloadFullBoxes
    /\ rectBox \in ReloadRectBoxes
    /\ otherBox \in ReloadOtherBoxes
    /\ modelOffset = ZeroVector
    /\ rectangularPartOffset = ZeroVector
    /\ otherPartOffset = ZeroVector
    /\ rotationCenter = ZeroVector
    /\ alignPending = TRUE
    /\ partialVisibility = DefaultVisibility
    /\ CubeIdle
    /\ CacheIdle

NextReload ==
    \/ AlignParts
    \/ LoadParts
    \/ RotationFrame
    \/ RotateModel
    \/ MoveStart
    \/ MoveRight
    \/ FlushRaf
    \/ Render
    \/ HeightClick

SpecReload == InitReload /\ [][NextReload]_vars

\* What the alignment computes, and the boxes of the clones it computes it from
AlignmentResults == <<modelOffset, rectangularPartOffset, otherPartOffset, rotationCenter>>
SourceMeshes == <<fullBox, rectBox, otherBox>>
AllPresent == ~Absent(fullBox) /\ ~Absent(rectBox) /\ ~Absent(otherBox)

\* C26: the ground offset, the part offsets and the pivot are all zero at mount and
\* change only in a run of the effect with all three clones present; the effect
\* becomes due only when a clone changes; and no step of a drag, of a height change,
\* of the rotation or of its frames changes them or makes the effect due.
C26_AlignmentOnlyOnReload ==
    /\ AlignmentResults = <<ZeroVector, ZeroVector, ZeroVector, ZeroVector>>
    /\ [][/\ AlignmentResults' # AlignmentResults
               => (alignPending /\ ~alignPending' /\ AllPresent)
          /\ (~alignPending /\ alignPending') => SourceMeshes' # SourceMeshes
          /\ <<dragVars, panelVars, rotVars>>' # <<dragVars, panelVars, rotVars>>
               => (AlignmentResults' = AlignmentResults /\ alignPending' = alignPending)]_vars

\* The effect has run on a model that has lost its rectangular part and has kept the
\* offsets of the earlier alignment, and the model has been dragged, raised and
\* turned since the mount.
C26_Witness ==
    /\ ~alignPending
    /\ Absent(rectBox)
    /\ rectangularPartOffset # ZeroVector
    /\ rotationCenter # ZeroVector
    /\ app.position[1] # 0
    /\ app.position[2] # 0
    /\ rotation # <<0, 0, 0>>
    /\ lastFrame = "idle"

---------------------------------------------------------------------------
(* A single-finger drag of several moves on a selected model, with the    *)
(* animation frames that deliver the positions and the renders that copy  *)
(* data.position into positionRef at any point between the moves.  The     *)
(* pointer goes down at (0, 0) and moves right in steps of 100 px.         *)

\* Where the model stands in x when the drag begins, in tenths of a world unit, and the
\* pointer's x at the moves, in pixels
AccumStartXs == {-20, 0, 10, 15, 25}
AccumXs == {100, 200, 300, 400}

InitAccum ==
    /\ impl = "current"
    /\ \E tenths \in AccumStartXs :
          app = [id |-> "model-1", position |-> <<(tenths * UNIT) \div 10, UNIT, 0>>,
                 selected |-> TRUE]
    /\ data = app
    /\ positionFresh = FALSE
    /\ emitted = <<>>
    /\ ModelIdle
    /\ PanelIdle
    /\ RotIdle
    /\ AlignIdle
    /\ CubeIdle
    /\ CacheIdle

\* The finger goes down on the model: the gesture's first event
AccumStart ==
    /\ ~gestureActive
    /\ lastEvent = NoEvent
    /\ LET s1 == OnDragStart([DragState EXCEPT !.memo = <<>>], 1)
           s2 == OnDrag(s1, <<0, 0>>, 1, TRUE)
       IN  Commit(s2, [touches |-> 1, xy |-> <<0, 0>>], TRUE)

\* The finger moves 100 px further to the right: a later event of the gesture
AccumMove ==
    /\ gestureActive
    /\ lastEvent.xy[1] + 100 \in AccumXs
    /\ LET xy == <<lastEvent.xy[1] + 100, 0>>
       IN  Commit(OnDrag(DragState, xy, 1, FALSE), [touches |-> 1, xy |-> xy], TRUE)

NextAccum ==
    \/ AccumStart
    \/ AccumMove
    \/ FlushRaf
    \/ Render

SpecAccum == InitAccum /\ [][NextAccum]_vars

\* The clamped accumulation of the deltas of the gesture so far: the pointer has moved
\* right only, so clamping step by step gives the clamp of the sum
Accumulated ==
    <<Clamp(initialStatesRef[1] + lastEvent.xy[1] * moveSpeed),
      initialStatesRef[2], initialStatesRef[3]>>

\* Every position computed has been delivered and rendered
Settled == rafQueue = <<>> /\ data = app /\ ~positionFresh

\* C32: during a single-finger gesture the position the next move starts from is the
\* clamped accumulation of the deltas of all the moves so far, whatever frames and
\* renders have run in between, and once every position is delivered and rendered
\* the model stands there.
C32_NoDeltaLost ==
    gestureActive =>
        /\ positionRef = Accumulated
        /\ Settled => app.position = Accumulated

---------------------------------------------------------------------------
(* A drag of small pointer moves.  The pointer goes down at (0, 0) and    *)
(* moves to the right; the gesture library delivers no event              *)
(* of the drag before the pointer is `threshold` pixels from where it     *)
(* went down, and every pointer move after that.                          *)

\* drag: { threshold: 3 } (BuildingModel.tsx), { threshold: 10 } (part_002), in pixels
dragThreshold == 3
dragThresholdLegacy == 10
Threshold == IF impl = "current" THEN dragThreshold ELSE dragThresholdLegacy

\* Where the pointer is on the screen's x axis, in pixels
JitterXs == {0, 1, 3, 4, 5, 10, 11, 12}

\* The pointer first gets `threshold` pixels away from (0, 0): the drag's first event
JitterFirst ==
    \E x \in JitterXs :
        /\ ~gestureActive
        /\ lastEvent = NoEvent
        /\ x >= Threshold
        /\ LET s0 == [DragState EXCEPT !.memo = <<>>]
               s1 == OnDragStart(s0, 1)
               s2 == OnDrag(s1, <<x, 0>>, 1, TRUE)
           IN  Commit(s2, [touches |-> 1, xy |-> <<x, 0>>], TRUE)

\* The pointer moves on to the right during the drag, by however little: onDrag
JitterMove ==
    \E x \in JitterXs :
        /\ gestureActive
        /\ x > lastEvent.xy[1]
        /\ LET s1 == OnDrag(DragState, <<x, 0>>, 1, FALSE)
           IN  Commit(s1, [touches |-> 1, xy |-> <<x, 0>>], TRUE)

\* The pointer goes up where it is: onDrag, then onDragEnd
JitterLast ==
    /\ gestureActive
    /\ lastEvent.touches = 1
    /\ LET s1 == OnDrag(DragState, lastEvent.xy, 0, FALSE)
           s2 == OnDragEnd(s1, 0)
       IN  Commit(s2, [touches |-> 0, xy |-> lastEvent.xy], FALSE)

NextJitter ==
    \/ JitterFirst
    \/ JitterMove
    \/ JitterLast
    \/ FlushRaf
    \/ Render

SpecJitter == InitDrag /\ [][NextJitter]_vars

\* A move event of a single-finger drag of a model rendered as selected, whose pointer
\* is less than the threshold away from where the previous event left it
SmallMove ==
    /\ gestureActive
    /\ gestureActive'
    /\ data.selected
    /\ lastEvent'.touches = 1
    /\ lastEvent'.xy # lastEvent.xy
    /\ Abs(lastEvent'.xy[1] - lastEvent.xy[1]) < Threshold
    /\ Abs(lastEvent'.xy[2] - lastEvent.xy[2]) < Threshold

\* C22: a drag move whose pointer is less than the pixel epsilon away from the previous
\* processed move is discarded: it hands nothing to onUpdate, at once or in a scheduled
\* callback, and leaves the model's position as it was.
C22_SmallMoveDiscarded ==
    [][SmallMove => (NewDragOutputs = {} /\ positionRef' = positionRef
                                        /\ app'.position = app.position)]_vars

---------------------------------------------------------------------------
(* The model cache: ModelCache of unnamed/part_000.  A call is a function *)
(* of the Map and of Date.now().                                          *)

\* constructor(maxAge: number = 3600000): one hour, in milliseconds
maxAge == 3600000

\* The urls and the loaded models (GLTF objects) the scene asks the cache for
URLs == {"a.glb", "b.glb"}
GLTFs == {"gltf-1", "gltf-2"}
null == "null"

\* this.cache.delete(url)
CacheDelete(c, url) == [u \in DOMAIN c \ {url} |-> c[u]]

\* A lookup that takes an item of exactly the max age for stale.
CacheGetStaleAtMaxAge(c, url, t) ==
    IF url \notin DOMAIN c THEN [cache |-> c, returned |-> null]
    ELSE IF t - c[url].timestamp >= maxAge
         THEN [cache |-> CacheDelete(c, url), returned |-> null]
         ELSE [cache |-> c, returned |-> c[url].model]
\* get(url) at the time t: the Map it leaves and what it returns
CacheGet(c, url, t) ==
    IF url \notin DOMAIN c THEN [cache |-> c, returned |-> null]
    ELSE IF t - c[url].timestamp > maxAge
         THEN [cache |-> CacheDelete(c, url), returned |-> null]
         ELSE [cache |-> c, returned |-> c[url].model]

\* set(url, model) at the time t
CacheSet(c, url, model, t) ==
    [u \in DOMAIN c \cup {url} |->
        IF u = url THEN [model |-> model, timestamp |-> t] ELSE c[u]]

\* clear()
CacheClear(c) == EmptyCache

\* size()
CacheSize(c) == Cardinality(DOMAIN c)

---------------------------------------------------------------------------
(* The calls of the cache specification *)

MaxCacheCalls == 4

\* How long the clock may run between two calls, in milliseconds
AdvanceMs == {1, maxAge, maxAge + 1}

\* The variables after a call that has left the Map c and returned a value
CommitCache(c, op, url, model, returned) ==
    /\ cache' = c
    /\ dateNow' = dateNow
    /\ cacheLog' = Append(cacheLog, [op |-> op, url |-> url, model |-> model,
                                     at |-> dateNow, returned |-> returned])
    /\ UNCHANGED outsideCache

\* modelCache.get(url)
Get ==
    /\ Len(cacheLog) < MaxCacheCalls
    /\ \E url \in URLs :
          LET r == CacheGet(cache, url, dateNow)
          IN  CommitCache(r.cache, "get", url, null, r.returned)

\* modelCache.set(url, model)
Set ==
    /\ Len(cacheLog) < MaxCacheCalls
    /\ \E url \in URLs, model \in GLTFs :
          CommitCache(CacheSet(cache, url, model, dateNow), "set", url, model, null)

\* modelCache.delete(url)
Delete ==
    /\ Len(cacheLog) < MaxCacheCalls
    /\ \E url \in URLs : CommitCache(CacheDelete(cache, url), "delete", url, null, null)

\* modelCache.clear()
Clear ==
    /\ Len(cacheLog) < MaxCacheCalls
    /\ CommitCache(CacheClear(cache), "clear", "", null, null)

\* modelCache.size()
Size ==
    /\ Len(cacheLog) < MaxCacheCalls
    /\ CommitCache(cache, "size", "", null, CacheSize(cache))

\* Time passes between two calls.
Advance ==
    \E dt \in AdvanceMs :
        /\ Len(cacheLog) < MaxCacheCalls
        /\ dateNow' = dateNow + dt
        /\ cacheLog' = Append(cacheLog, [op |-> "advance", url |-> "", model |-> null,
                                         at |-> dateNow, returned |-> null])
        /\ UNCHANGED <<cache, outsideCache>>

InitCache ==
    /\ impl = "current"
    /\ app = [id |-> "model-1", position |-> InitialPosition("model-1"), selected |-> FALSE]
    /\ data = app
    /\ positionFresh = FALSE
    /\ emitted = <<>>
    /\ ModelIdle
    /\ PanelIdle
    /\ RotIdle
    /\ AlignIdle
    /\ CubeAtMount(<<0, 0, 0>>)
    /\ CacheIdle

NextCache ==
    \/ Get
    \/ Set
    \/ Delete
    \/ Clear
    \/ Size
    \/ Advance

SpecCache == InitCache /\ [][NextCache]_vars

---------------------------------------------------------------------------
(* Properties of the cache *)

\* Among the first n calls, the last set of the url that no delete of the url and no
\* clear has followed: its place in the log, or 0
RECURSIVE LastSet(_, _)
LastSet(url, n) ==
    IF n = 0 THEN 0
    ELSE LET call == cacheLog[n]
         IN  IF call.op = "set" /\ call.url = url THEN n
             ELSE IF call.op = "clear" \/ (call.op = "delete" /\ call.url = url) THEN 0
             ELSE LastSet(url, n - 1)

\* The age at the call k of what the call j stored
Age(j, k) == cacheLog[k].at - cacheLog[j].at

\* A lookup among the calls j+1..n found what the call j stored to be stale.
LookedUpStale(url, j, n) ==
    \E k \in (j + 1)..n :
        /\ cacheLog[k].op = "get"
        /\ cacheLog[k].url = url
        /\ Age(j, k) > maxAge

\* After the first n calls the url has an entry that no lookup has found stale.
Counted(url, n) ==
    LET j == LastSet(url, n)
    IN  j # 0 /\ ~LookedUpStale(url, j, n)

\* Every get returned the model of the most recent set of its url if that was at most
\* maxAge before, and null otherwise.
GetsReturnLastSet ==
    \A i \in 1..Len(cacheLog) :
        cacheLog[i].op = "get" =>
            LET j == LastSet(cacheLog[i].url, i - 1)
            IN  cacheLog[i].returned =
                    IF j # 0 /\ Age(j, i) <= maxAge THEN cacheLog[j].model ELSE null

\* The size counts the entries set and not yet looked up stale, fresh or not, now and
\* at every call of size().
SizeCountsUntilLookup ==
    /\ CacheSize(cache) = Cardinality({url \in URLs : Counted(url, Len(cacheLog))})
    /\ \A i \in 1..Len(cacheLog) :
          cacheLog[i].op = "size" =>
              cacheLog[i].returned = Cardinality({url \in URLs : Counted(url, i - 1)})

\* C17: get(url) returns the model of the most recent set(url) while the entry's age
\* is at most maxAge; once the age exceeds maxAge get(url) returns null and removes
\* the entry, so that the size drops by one; until that lookup the stale entry is
\* counted by size().
C17_ExpiresLazily == GetsReturnLastSet /\ SizeCountsUntilLookup

\* An entry older than maxAge was still counted by size() and then a lookup returned
\* null and removed it.
C17_Witness ==
    /\ Len(cacheLog) = 4
    /\ cacheLog[1].op = "set"
    /\ cacheLog[3].op = "size"
    /\ cacheLog[3].returned = 1
    /\ Age(1, 3) > maxAge
    /\ cacheLog[4].op = "get"
    /\ cacheLog[4].url = cacheLog[1].url
    /\ cacheLog[4].returned = null
    /\ CacheSize(cache) = 0

=============================================================================
